---- MODULE Spec2Model ----
(***************************************************************************)
(* A model of a6-tools: the MIDI SysEx detector and the 7-bit codec        *)
(* (src/sysex.rs), the update-block decoder (src/a6/update.rs), the packed *)
(* boolean array (src/util/bitmap.rs) and the big-endian readers           *)
(* (src/io.rs).                                                            *)
(*                                                                         *)
(* Representation of machine integers.  TLC's integers are 32-bit signed,  *)
(* so a u32 is kept as a pair <<hi, lo>> of its 16-bit halves; u8, u16 and *)
(* the small usize values of the model are plain integers.  A machine word *)
(* of a BoolArray is kept as the set of the positions of its 1 bits.       *)
(***************************************************************************)
EXTENDS Integers, Sequences, FiniteSets, TLC

VARIABLES
    target,     \* the build target: byte order and pointer width
    \* ---- 7-bit codec (src/sysex.rs) ----
    cpc,        \* position of the codec driver: "start", "encoded", "decoded";
                \* "septets", "octets" when decode_7bit is used alone
    data8,      \* the octets given to encode_7bit
    data7,      \* the septets encode_7bit appended to dst
    back8,      \* the octets decode_7bit appended to dst
    \* ---- SysExDetector (src/sysex.rs) ----
    det,        \* the SysExDetector struct: state, start, pos, len, cap, buf
    dpc,        \* "idle", "loop" (inside consume), "panic", "finished"
    bytes,      \* consume's local `bytes`: the unconsumed rest of the chunk
    stream,     \* every byte passed to consume so far
    calls,      \* the handler invocations so far, in order, with the answers
    dret,       \* what the last consume returned: "none", "true", "false"
    \* ---- BlockDecoder (src/a6/update.rs) ----
    dec,        \* the BlockDecoder struct: state, capacity
    op,         \* the last operation: "new", "decode_block", "image", "panic",
                \* or "idle" once the caller has let go of its result
    block,      \* the argument of the last decode_block
    fb,         \* what Block::from_bytes returned in the last decode_block
    events,     \* the handler invocations of the last operation, with answers
    ret,        \* what the last operation returned
    written,    \* history: index -> fill of the last block written there
    dup_ever,   \* history: some index was written more than once
    \* ---- BoolArray (src/util/bitmap.rs) ----
    arr,        \* the BoolArray struct: words, len
    aop,        \* the last operation on it: kind ("new", "set", "clear",
                \* "get", "set_all", "first_false", "panic", "off"), index
    aret,       \* what the last operation returned
    truth,      \* history: index -> the value last stored there
    \* ---- block_count_for (src/a6/update.rs) ----
    bcf,        \* a call of block_count_for: pc ("start", "done", "off"),
                \* len (the argument), count (the result)
    \* ---- Input (src/io.rs) ----
    inp,        \* the Input struct: offset (stream is isrc; name is not modelled)
    isrc,       \* the underlying stream: data, and pos, the count of bytes
                \* consumed from it since Input::new
    iop,        \* the last operation on the Input: kind ("new", "skip_until",
                \* "read_until", "read_exact", "off") and its result
    \* ---- recognize_sysex (src/a6/mod.rs) ----
    rec,        \* a call of recognize_sysex: pc ("start", "done", "off"),
                \* msg (the argument), ret (the result)
    \* ---- BufReadExt::scan_until_bits (src/io.rs) ----
    scan        \* a call of scan_until_bits: pc ("loop", "done", "off"), the
                \* stream (data, pos, cap), the arguments (bits, mask), the
                \* local `consumed`, the slices passed to the callback (fed),
                \* what fill_buf has returned so far (outcomes), and ret

vars == <<target, cpc, data8, data7, back8,
          det, dpc, bytes, stream, calls, dret,
          dec, op, block, fb, events, ret, written, dup_ever,
          arr, aop, aret, truth, bcf, inp, isrc, iop, rec, scan>>

codecVars == <<cpc, data8, data7, back8>>
detVars   == <<det, dpc, bytes, stream, calls, dret>>
decVars   == <<dec, op, block, fb, events, ret, written, dup_ever>>
bitVars   == <<arr, aop, aret, truth>>
inVars    == <<inp, isrc, iop>>
utilVars  == <<bitVars, bcf, inVars, rec, scan>>

(***************************************************************************)
(* Bounds of the model.                                                    *)
(***************************************************************************)
MaxOctets == 8      \* longest octet sequence given to the codec
MaxSeptets == 9     \* longest septet sequence given to decode_7bit alone
MaxStream == 5      \* most bytes passed to one detector
MaxChunk  == 2      \* longest chunk passed to one consume call
MaxCap    == 3      \* largest detector capacity
MaxCalls  == 6      \* handler invocations recorded per detector
MaxBlocks == 3      \* largest block_count of an image
MaxInput  == 4      \* most bytes in the stream of an Input
MaxBuf    == 2      \* most bytes fill_buf returns at once

(***************************************************************************)
(* Machine arithmetic.                                                     *)
(***************************************************************************)
Pow2(n) == 2 ^ n

RECURSIVE BitAnd(_, _)
BitAnd(a, b) ==
    IF a = 0 \/ b = 0 THEN 0
    ELSE (a % 2) * (b % 2) + 2 * BitAnd(a \div 2, b \div 2)

RECURSIVE BitOr(_, _)
BitOr(a, b) ==
    IF a = 0 THEN b
    ELSE IF b = 0 THEN a
    ELSE (IF a % 2 = 1 \/ b % 2 = 1 THEN 1 ELSE 0)
         + 2 * BitOr(a \div 2, b \div 2)

Shl16(a, n) == (a * Pow2(n)) % 65536     \* u16 << n
Shr(a, n)   == a \div Pow2(n)            \* >> n

Min(S) == CHOOSE m \in S : \A n \in S : m <= n

\* u32 as <<hi, lo>>
U32(n)         == <<n \div 65536, n % 65536>>     \* of an integer below 2^31
U32Hi(u)       == u[1]
U32Lo(u)       == u[2]
U32Gt(a, b)    == a[1] > b[1] \/ (a[1] = b[1] /\ a[2] > b[2])
U32AsUsize(u)  == u[1] * 65536 + u[2]             \* `as usize`, below 2^31
wrapping_add(a, b) ==
    LET lo == a[2] + b[2]
        hi == a[1] + b[1] + lo \div 65536
    IN  <<hi % 65536, lo % 65536>>
U32Pred(u) ==                                     \* n - 1, for n > 0
    IF u[2] > 0 THEN <<u[1], u[2] - 1>> ELSE <<u[1] - 1, 65535>>

(***************************************************************************)
(* encode_7bit and decode_7bit.                                            *)
(***************************************************************************)
\* The registers of the codec's loops: the shift register, the count of
\* bits left over in it, and the output vector.
Regs(data, bits, dst) == [data |-> data, bits |-> bits, dst |-> dst]

\* A variant of encode_loop that does not yield the extra septet when 7
\* bits are left over; C21 must tell it from the code.
RECURSIVE encode_loop_nogroup(_, _, _, _, _, _)
encode_loop_nogroup(src, i, j, data, bits, dst) ==
    IF i > j THEN Regs(data, bits, dst)
    ELSE IF data < 0 \/ Len(dst) < 0 THEN Regs(data, bits, dst)
    ELSE LET d1   == BitOr(data, Shl16(src[i], bits))
             out1 == Append(dst, BitAnd(d1, 127))
             d2   == Shr(d1, 7)
             b2   == bits + 1
         IN  IF b2 = 7
             THEN encode_loop_nogroup(src, i + 1, j, 0, 0, out1)
             ELSE encode_loop_nogroup(src, i + 1, j, d2, b2, out1)

\* A variant of encode_loop that pushes the low byte of the register
\* unmasked; C22 must tell it from the code.
RECURSIVE encode_loop_nomask(_, _, _, _, _, _)
encode_loop_nomask(src, i, j, data, bits, dst) ==
    IF i > j THEN Regs(data, bits, dst)
    ELSE IF data < 0 \/ Len(dst) < 0 THEN Regs(data, bits, dst)
    ELSE LET d1   == BitOr(data, Shl16(src[i], bits))
             out1 == Append(dst, BitAnd(d1, 255))
             d2   == Shr(d1, 7)
             b2   == bits + 1
         IN  IF b2 = 7
             THEN encode_loop_nomask(src, i + 1, j, 0, 0,
                                     Append(out1, BitAnd(d2, 127)))
             ELSE encode_loop_nomask(src, i + 1, j, d2, b2, out1)

\* The body of encode_7bit's loop for the elements i..j of src.  (The test
\* on data and dst makes TLC evaluate both before the next iteration.)
RECURSIVE encode_loop(_, _, _, _, _, _)
encode_loop(src, i, j, data, bits, dst) ==
    IF i > j THEN Regs(data, bits, dst)
    ELSE IF data < 0 \/ Len(dst) < 0 THEN Regs(data, bits, dst)
    ELSE LET d1   == BitOr(data, Shl16(src[i], bits))
             out1 == Append(dst, BitAnd(d1, 127))
             d2   == Shr(d1, 7)
             b2   == bits + 1
         IN  IF b2 = 7
             THEN encode_loop(src, i + 1, j, 0, 0,
                              Append(out1, BitAnd(d2, 127)))
             ELSE encode_loop(src, i + 1, j, d2, b2, out1)

\* The same loop over the whole of src from element i on, run a stretch of
\* 32 elements at a time to bound the depth of the evaluation.
RECURSIVE encode_from(_, _, _)
encode_from(src, i, r) ==
    IF i > Len(src) THEN r
    ELSE LET j == IF i + 31 < Len(src) THEN i + 31 ELSE Len(src)
             s == encode_loop(src, i, j, r.data, r.bits, r.dst)
         IN  IF s.bits >= 0 THEN encode_from(src, j + 1, s) ELSE s

\* A variant of encode_flush that forgets the bits left over; C3 must tell
\* it from the code.
encode_noflush(r) == r.dst

\* encode_7bit, "Yield final leftover bits, if any."
encode_flush(r) ==
    IF r.bits > 0 THEN Append(r.dst, BitAnd(r.data, 127)) ELSE r.dst

encode_7bit(src, dst) == encode_flush(encode_from(src, 1, Regs(0, 0, dst)))

\* A variant of decode_loop that makes a byte of the first septet of a
\* group as well; C23 must tell it from the code.
RECURSIVE decode_loop_eager(_, _, _, _, _, _)
decode_loop_eager(src, i, j, data, bits, dst) ==
    IF i > j THEN Regs(data, bits, dst)
    ELSE IF data < 0 \/ Len(dst) < 0 THEN Regs(data, bits, dst)
    ELSE LET v == BitAnd(src[i], 127)
         IN  IF bits = 0
             THEN decode_loop_eager(src, i + 1, j, v, 7, Append(dst, v))
             ELSE LET d1 == BitOr(data, Shl16(v, bits))
                  IN  decode_loop_eager(src, i + 1, j, Shr(d1, 8), bits - 1,
                                        Append(dst, BitAnd(d1, 255)))

\* A variant of decode_loop that does not isolate the 7 input bits; C38
\* must tell it from the code.
RECURSIVE decode_loop_nomask(_, _, _, _, _, _)
decode_loop_nomask(src, i, j, data, bits, dst) ==
    IF i > j THEN Regs(data, bits, dst)
    ELSE IF data < 0 \/ Len(dst) < 0 THEN Regs(data, bits, dst)
    ELSE LET v == src[i]
         IN  IF bits = 0
             THEN decode_loop_nomask(src, i + 1, j, v, 7, dst)
             ELSE LET d1 == BitOr(data, Shl16(v, bits))
                  IN  decode_loop_nomask(src, i + 1, j, Shr(d1, 8), bits - 1,
                                         Append(dst, BitAnd(d1, 255)))

\* The body of decode_7bit's loop for the elements i..j of src.
RECURSIVE decode_loop(_, _, _, _, _, _)
decode_loop(src, i, j, data, bits, dst) ==
    IF i > j THEN Regs(data, bits, dst)
    ELSE IF data < 0 \/ Len(dst) < 0 THEN Regs(data, bits, dst)
    ELSE LET v == BitAnd(src[i], 127)
         IN  IF bits = 0
             THEN decode_loop(src, i + 1, j, v, 7, dst)
             ELSE LET d1 == BitOr(data, Shl16(v, bits))
                  IN  decode_loop(src, i + 1, j, Shr(d1, 8), bits - 1,
                                  Append(dst, BitAnd(d1, 255)))

\* The same loop over the whole of src, a stretch of 32 elements at a time.
RECURSIVE decode_from(_, _, _)
decode_from(src, i, r) ==
    IF i > Len(src) THEN r
    ELSE LET j == IF i + 31 < Len(src) THEN i + 31 ELSE Len(src)
             s == decode_loop(src, i, j, r.data, r.bits, r.dst)
         IN  IF s.bits >= 0 THEN decode_from(src, j + 1, s) ELSE s

decode_7bit(src, dst) == decode_from(src, 1, Regs(0, 0, dst)).dst

SeqsUpTo(S, n) == UNION {[1..k -> S] : k \in 0..n}

Targets == {[little_endian |-> TRUE,  pointer_width |-> 64],
            [little_endian |-> FALSE, pointer_width |-> 32]}

DefaultTarget == [little_endian |-> TRUE, pointer_width |-> 64]

OctetValues == {0, 106, 255}

\* The sizes of a block (src/a6/update.rs): raw header, raw data, and the
\* whole block once 7-bit encoded.
BLOCK_HEAD_LEN == 16
BLOCK_DATA_LEN == 256
BLOCK_7BIT_LEN == 311

\* The octets of the test test_encode_7bit.
TestOctets == <<241, 226, 211, 196, 181, 166, 151, 136, 121, 106>>

\* A raw block: header and data bytes, with high bits set and clear.
RawBlock == [i \in 1..(BLOCK_HEAD_LEN + BLOCK_DATA_LEN) |-> (i * 37) % 256]

\* The octet sequences given to encode_7bit: every short sequence, the
\* test's ten octets and one raw block.
CodecInputs == SeqsUpTo(OctetValues, MaxOctets) \cup {TestOctets, RawBlock}

InitCodec ==
    /\ cpc = "start"
    /\ data8 \in CodecInputs
    /\ data7 = <<>>
    /\ back8 = <<>>

IdleCodec ==
    /\ cpc = "off"
    /\ data8 = <<>>
    /\ data7 = <<>>
    /\ back8 = <<>>

\* encode_7bit(&data8, &mut data7) on an empty data7.
Encode ==
    /\ cpc = "start"
    /\ data7' = encode_7bit(data8, <<>>)
    /\ cpc' = "encoded"
    /\ UNCHANGED <<data8, back8>>

\* The septets of the test test_decode_7bit.
TestSeptets == <<241, 69, 207, 38, 220, 86, 233, 75, 136, 115, 169, 123>>

SeptetValues == {0, 113, 255}

\* The septet sequences given to decode_7bit on their own: every short
\* sequence, the test's twelve septets, and two of the length of an encoded
\* block: an encoded raw block, and bytes with bit 7 set or clear.
SeptetInputs ==
    SeqsUpTo(SeptetValues, MaxSeptets)
    \cup {TestSeptets, encode_7bit(RawBlock, <<>>),
          [i \in 1..BLOCK_7BIT_LEN |-> (i * 89) % 256]}

\* decode_7bit is about to be called on septets that are not the output of
\* an encode_7bit call of the model.
InitSeptets ==
    /\ cpc = "septets"
    /\ data8 = <<>>
    /\ data7 \in SeptetInputs
    /\ back8 = <<>>

\* decode_7bit(&data7, &mut back8) on an empty back8.
Decode ==
    /\ cpc \in {"encoded", "septets"}
    /\ back8' = decode_7bit(data7, <<>>)
    /\ cpc' = IF cpc = "encoded" THEN "decoded" ELSE "octets"
    /\ UNCHANGED <<data8, data7>>

\* What a sender may put in the bits decode_7bit does not use: bit 7 of
\* the septets chosen by high (none, all, or every other one from the
\* first), and pad in the padding bits of the final septet of the encoding
\* of n octets (the bits above its n % 7 leftover bits; there are none when
\* 7 divides n).
Garbled(e, n, high, pad) ==
    [i \in 1..Len(e) |->
        BitOr(BitOr(e[i],
                    IF high = "all" \/ (high = "odd" /\ i % 2 = 1)
                    THEN 128 ELSE 0),
              IF i = Len(e) /\ n % 7 # 0
              THEN BitAnd(pad, 127 - (Pow2(n % 7) - 1)) ELSE 0)]

\* The septets in data7 reach decode_7bit with those bits changed.
Garble ==
    /\ cpc = "encoded"
    /\ \E high \in {"none", "all", "odd"}, pad \in {0, 127} :
          /\ data7' = Garbled(encode_7bit(data8, <<>>), Len(data8), high, pad)
          /\ data7' # data7
    /\ UNCHANGED <<cpc, data8, back8>>

(***************************************************************************)
(* SysExDetector.                                                          *)
(***************************************************************************)
SYSEX_BEGIN == 247      \* 0xF7
SYSEX_END   == 240      \* 0xF0

NoCall == [kind |-> "none"]

\* SysExDetector::new(cap, handler)
SysExDetector_new(cap) ==
    [state |-> "Initial", start |-> 0, pos |-> 0, len |-> 0,
     cap |-> cap, buf |-> [i \in 1..cap |-> 0]]

\* The for loop of skip_non_sysex from element i on; cnt and pos are its
\* locals, ans is the answer the handler gives if it is invoked.  The result
\* is the detector afterwards, the returned (ok, len) and the handler
\* invocation made, if any.
RECURSIVE skip_loop(_, _, _, _, _, _)
skip_loop(d, bs, i, cnt, pos, ans) ==
    IF i > Len(bs)
    THEN [det |-> [d EXCEPT !.pos = pos], ok |-> TRUE, len |-> cnt,
          call |-> NoCall, panic |-> FALSE]
    ELSE IF bs[i] = SYSEX_BEGIN
    THEN LET start == d.start
             count == pos - start
         IN  [det   |-> [d EXCEPT !.state = "SysExData", !.start = pos,
                                  !.pos = pos + 1, !.len = 1],
              ok    |-> (count = 0 \/ ans),
              len   |-> cnt,
              call  |-> IF count = 0 THEN NoCall
                        ELSE [kind |-> "skip", pos |-> start, len |-> count,
                              reason |-> "NotSysEx", ans |-> ans],
              panic |-> FALSE]
    ELSE skip_loop(d, bs, i + 1, cnt + 1, pos + 1, ans)

skip_non_sysex(d, bs, ans) == skip_loop(d, bs, 1, 0, d.pos, ans)

\* The for loop of accumulate_data from element i on; cnt, len and buf are
\* its locals (buf is the detector's buffer, written in place).  An index
\* past the end of buf panics.
RECURSIVE accumulate_loop(_, _, _, _, _, _, _)
accumulate_loop(d, bs, i, cnt, len, buf, ans) ==
    IF i > Len(bs)
    THEN [det |-> [d EXCEPT !.pos = d.pos + cnt, !.len = len, !.buf = buf],
          ok |-> TRUE, len |-> cnt, call |-> NoCall, panic |-> FALSE]
    ELSE LET byte == bs[i] IN
         IF byte <= 127
         THEN IF len >= Len(buf)
              THEN [det |-> [d EXCEPT !.buf = buf], ok |-> FALSE, len |-> cnt,
                    call |-> NoCall, panic |-> TRUE]
              ELSE accumulate_loop(d, bs, i + 1, cnt + 1, len + 1,
                                   [buf EXCEPT ![len + 1] = byte], ans)
         ELSE IF byte = 240
         THEN [det   |-> [d EXCEPT !.state = "SysExData", !.pos = d.pos + cnt,
                                   !.len = 1, !.buf = buf],
               ok    |-> ans,
               len   |-> cnt,
               call  |-> [kind |-> "skip", pos |-> d.start, len |-> cnt,
                          reason |-> "UnexpectedByte", ans |-> ans],
               panic |-> FALSE]
         ELSE IF byte = 247
         THEN IF len >= Len(buf)
              THEN [det |-> [d EXCEPT !.buf = buf], ok |-> FALSE, len |-> cnt,
                    call |-> NoCall, panic |-> TRUE]
              ELSE LET buf2 == [buf EXCEPT ![len + 1] = byte]
                       cnt2 == cnt + 1
                       len2 == len + 1
                   IN  [det   |-> [d EXCEPT !.state = "Initial",
                                            !.start = d.pos + len2,
                                            !.pos = d.pos + len2,
                                            !.len = 0, !.buf = buf2],
                        ok    |-> ans,
                        len   |-> cnt2,
                        call  |-> [kind |-> "message", pos |-> d.start,
                                   msg |-> SubSeq(buf2, 1, len2), ans |-> ans],
                        panic |-> FALSE]
         ELSE IF byte >= 248
         THEN accumulate_loop(d, bs, i + 1, cnt + 1, len, buf, ans)
         ELSE [det   |-> [d EXCEPT !.state = "Initial", !.pos = d.pos + cnt,
                                   !.len = 0, !.buf = buf],
               ok    |-> ans,
               len   |-> cnt,
               call  |-> [kind |-> "skip", pos |-> d.start, len |-> cnt,
                          reason |-> "UnexpectedByte", ans |-> ans],
               panic |-> FALSE]

accumulate_data(d, bs, ans) ==
    accumulate_loop(d, bs, 1, 0, d.len, d.buf, ans)

\* The handler invocations are recorded up to MaxCalls of them.
Record(log, call) ==
    IF call = NoCall \/ Len(log) >= MaxCalls THEN log ELSE Append(log, call)

StreamBytes == {109, 144, 240, 247, 248}    \* 'm', 0x90, F0, F7, F8

InitDetector ==
    /\ \E cap \in 0..MaxCap : det = SysExDetector_new(cap)
    /\ dpc = "idle"
    /\ bytes = <<>>
    /\ stream = <<>>
    /\ calls = <<>>
    /\ dret = "none"

IdleDetector ==
    /\ det = SysExDetector_new(0)
    /\ dpc = "off"
    /\ bytes = <<>>
    /\ stream = <<>>
    /\ calls = <<>>
    /\ dret = "none"

\* consume(bytes) is entered: an empty chunk returns true at once.
Consume ==
    /\ dpc = "idle"
    /\ \E chunk \in SeqsUpTo(StreamBytes, MaxChunk) :
          /\ Len(stream) + Len(chunk) <= MaxStream
          /\ stream' = stream \o chunk
          /\ bytes' = chunk
          /\ dpc' = IF Len(chunk) > 0 THEN "loop" ELSE "idle"
          /\ dret' = IF Len(chunk) > 0 THEN "none" ELSE "true"
    /\ UNCHANGED <<det, calls>>

\* One iteration of consume's while loop, and the return that follows it
\* when the handler asked for an early exit or the chunk is used up.
ConsumeStep ==
    /\ dpc = "loop"
    /\ \E ans \in BOOLEAN :
          LET r == IF det.state = "Initial"
                   THEN skip_non_sysex(det, bytes, ans)
                   ELSE accumulate_data(det, bytes, ans)
              rest == SubSeq(bytes, r.len + 1, Len(bytes))
          IN  /\ det' = r.det
              /\ calls' = Record(calls, r.call)
              /\ IF r.panic
                 THEN /\ dpc' = "panic"
                      /\ dret' = "none"
                      /\ bytes' = bytes
                 ELSE IF ~r.ok
                 THEN /\ dpc' = "idle"
                      /\ dret' = "false"
                      /\ bytes' = bytes
                 ELSE /\ bytes' = rest
                      /\ dpc' = IF Len(rest) > 0 THEN "loop" ELSE "idle"
                      /\ dret' = IF Len(rest) > 0 THEN "none" ELSE "true"
    /\ UNCHANGED stream

\* finish(), at the end of the input: its body is empty.
Finish ==
    /\ dpc = "idle"
    /\ dpc' = "finished"
    /\ UNCHANGED <<det, bytes, stream, calls, dret>>

(***************************************************************************)
(* BoolArray (src/util/bitmap.rs).  A word is the set of its 1 bits.       *)
(***************************************************************************)
WORD_INDEX_SHIFT(t) == IF t.pointer_width = 32 THEN 5 ELSE 6
BIT_INDEX_MASK(t)   == Pow2(WORD_INDEX_SHIFT(t)) - 1
WordBits(t)         == 0..(Pow2(WORD_INDEX_SHIFT(t)) - 1)    \* usize::max_value()

BoolArray_new(t, len) ==
    LET cap == IF len = 0 THEN 0 ELSE 1 + Shr(len - 1, WORD_INDEX_SHIFT(t))
    IN  [words |-> [w \in 1..cap |-> {}], len |-> len]

\* (index within the words array, position of the mask's bit)
split_index(t, index) ==
    <<Shr(index, WORD_INDEX_SHIFT(t)), BitAnd(index, BIT_INDEX_MASK(t))>>

\* A variant of BoolArray_set that reports whether any bit of the word was
\* set; C40 must tell it from the code.
BoolArray_set_anybit(t, a, index) ==
    IF ~(index < a.len)
    THEN [panic |-> TRUE, array |-> a, was |-> FALSE]
    ELSE LET si   == split_index(t, index)
             word == a.words[si[1] + 1]
         IN  [panic |-> FALSE,
              array |-> [a EXCEPT !.words[si[1] + 1] = word \cup {si[2]}],
              was   |-> word # {}]

\* set(index): the array afterwards and the previous value; the assert panics.
BoolArray_set(t, a, index) ==
    IF ~(index < a.len)
    THEN [panic |-> TRUE, array |-> a, was |-> FALSE]
    ELSE LET si   == split_index(t, index)
             word == a.words[si[1] + 1]
         IN  [panic |-> FALSE,
              array |-> [a EXCEPT !.words[si[1] + 1] = word \cup {si[2]}],
              was   |-> si[2] \in word]

\* A variant of BoolArray_clear that clears the whole word; C24 must tell
\* it from the code.
BoolArray_clear_word(t, a, index) ==
    IF ~(index < a.len)
    THEN [panic |-> TRUE, array |-> a, was |-> FALSE]
    ELSE LET si   == split_index(t, index)
             word == a.words[si[1] + 1]
         IN  [panic |-> FALSE,
              array |-> [a EXCEPT !.words[si[1] + 1] = {}],
              was   |-> si[2] \in word]

\* clear(index): the array afterwards and the previous value.
BoolArray_clear(t, a, index) ==
    IF ~(index < a.len)
    THEN [panic |-> TRUE, array |-> a, was |-> FALSE]
    ELSE LET si   == split_index(t, index)
             word == a.words[si[1] + 1]
         IN  [panic |-> FALSE,
              array |-> [a EXCEPT !.words[si[1] + 1] = word \ {si[2]}],
              was   |-> si[2] \in word]

BoolArray_get(t, a, index) ==
    LET si == split_index(t, index) IN si[2] \in a.words[si[1] + 1]

\* A variant of trailing_zeros_not that always finds bit 0 clear; C4 must
\* tell it from the code.
trailing_zeros_none(t, word) == 0

\* (!word).trailing_zeros()
trailing_zeros_not(t, word) ==
    IF word = WordBits(t) THEN Pow2(WORD_INDEX_SHIFT(t))
    ELSE Min(WordBits(t) \ word)

None == [some |-> FALSE]
Some(v) == [some |-> TRUE, value |-> v]

\* A variant of first_false_loop that does not compare the index found
\* with len; C25 must tell it from the code.
RECURSIVE first_false_loop_noclamp(_, _, _, _)
first_false_loop_noclamp(t, a, w, index) ==
    IF w > Len(a.words) THEN None
    ELSE IF a.words[w] # WordBits(t)
    THEN Some(index + trailing_zeros_not(t, a.words[w]))
    ELSE first_false_loop_noclamp(t, a, w + 1,
                                  index + Pow2(WORD_INDEX_SHIFT(t)))

RECURSIVE first_false_loop(_, _, _, _)
first_false_loop(t, a, w, index) ==
    IF w > Len(a.words) THEN None
    ELSE IF a.words[w] # WordBits(t)
    THEN LET index2 == index + trailing_zeros_not(t, a.words[w])
         IN  IF index2 < a.len THEN Some(index2) ELSE None
    ELSE first_false_loop(t, a, w + 1, index + Pow2(WORD_INDEX_SHIFT(t)))

first_false(t, a) == first_false_loop(t, a, 1, 0)

(***************************************************************************)
(* ReadExt::read_u16 / read_u32 (src/io.rs).                               *)
(***************************************************************************)
swap16(x) == (x % 256) * 256 + x \div 256

\* mem::transmute of a 2- or 4-byte buffer to the native integer.
transmute_u16(t, buf) ==
    IF t.little_endian THEN buf[1] + 256 * buf[2] ELSE 256 * buf[1] + buf[2]
transmute_u32(t, buf) ==
    IF t.little_endian
    THEN <<buf[3] + 256 * buf[4], buf[1] + 256 * buf[2]>>
    ELSE <<256 * buf[1] + buf[2], 256 * buf[3] + buf[4]>>

\* A variant of to_be_u32 that leaves the native order; C10 must tell it
\* from the code.
to_be_u32_native(t, v) == v

\* u16::to_be / u32::to_be: a byte swap on a little-endian target.
to_be_u16(t, v) == IF t.little_endian THEN swap16(v) ELSE v
to_be_u32(t, v) == IF t.little_endian THEN <<swap16(v[2]), swap16(v[1])>> ELSE v

\* read_uN on a byte slice: the value and the slice advanced past it.
read_u16(t, bs) ==
    [value |-> to_be_u16(t, transmute_u16(t, SubSeq(bs, 1, 2))),
     rest  |-> SubSeq(bs, 3, Len(bs))]
read_u32(t, bs) ==
    [value |-> to_be_u32(t, transmute_u32(t, SubSeq(bs, 1, 4))),
     rest  |-> SubSeq(bs, 5, Len(bs))]

(***************************************************************************)
(* The block decoder (src/a6/update.rs).                                   *)
(***************************************************************************)
BLOCK_DIV_SHIFT == 8
IMAGE_MAX_BYTES == <<32, 0>>        \* 2 * 1024 * 1024 as a u32

\* Handler::on for the n-th event of an operation: the handler of the model
\* answers Err(()) (stop) to event number stopAt and Ok(()) to the others.
on(n, stopAt) == IF n = stopAt THEN "Err" ELSE "Ok"

\* handler.on(&e) appended to the invocations evs of the operation so far.
Emit(evs, e, stopAt) ==
    Append(evs, [event |-> e, ans |-> on(Len(evs) + 1, stopAt)])

LastAns(evs) == evs[Len(evs)].ans

\* A variant of from_bytes that keeps the excess bytes of a long slice;
\* C11 must tell it from the code.
from_bytes_whole(t, bs, stopAt) ==
    LET LEN  == BLOCK_HEAD_LEN + BLOCK_DATA_LEN
        bad  == Len(bs) # LEN
        evs  == IF bad
                THEN Emit(<<>>, [type |-> "InvalidBlockLength", actual |-> Len(bs)],
                          stopAt)
                ELSE <<>>
    IN  IF bad /\ LastAns(evs) = "Err"
        THEN [tag |-> "Err", err |-> FALSE, events |-> evs]
        ELSE IF bad /\ Len(bs) < LEN
        THEN [tag |-> "Err", err |-> TRUE, events |-> evs]
        ELSE LET r1 == read_u32(t, bs)
                 r2 == read_u32(t, r1.rest)
                 r3 == read_u32(t, r2.rest)
                 r4 == read_u16(t, r3.rest)
                 r5 == read_u16(t, r4.rest)
             IN  [tag    |-> "Ok",
                  header |-> [version     |-> r1.value,
                              checksum    |-> r2.value,
                              length      |-> r3.value,
                              block_count |-> r4.value,
                              block_index |-> r5.value],
                  data   |-> r5.rest,
                  events |-> evs]

\* Block::from_bytes
from_bytes(t, bs, stopAt) ==
    LET LEN  == BLOCK_HEAD_LEN + BLOCK_DATA_LEN
        bad  == Len(bs) # LEN
        evs  == IF bad
                THEN Emit(<<>>, [type |-> "InvalidBlockLength", actual |-> Len(bs)],
                          stopAt)
                ELSE <<>>
    IN  IF bad /\ LastAns(evs) = "Err"
        THEN [tag |-> "Err", err |-> FALSE, events |-> evs]
        ELSE IF bad /\ Len(bs) < LEN
        THEN [tag |-> "Err", err |-> TRUE, events |-> evs]
        ELSE LET b0 == SubSeq(bs, 1, LEN)
                 r1 == read_u32(t, b0)
                 r2 == read_u32(t, r1.rest)
                 r3 == read_u32(t, r2.rest)
                 r4 == read_u16(t, r3.rest)
                 r5 == read_u16(t, r4.rest)
             IN  [tag    |-> "Ok",
                  header |-> [version     |-> r1.value,
                              checksum    |-> r2.value,
                              length      |-> r3.value,
                              block_count |-> r4.value,
                              block_index |-> r5.value],
                  data   |-> r5.rest,
                  events |-> evs]

\* A variant of block_count_for that keeps only 8 bits of the quotient; C26
\* must tell it from the code.
block_count_for_u8(len) ==
    IF len = <<0, 0>> THEN 0
    ELSE LET n1 == U32Pred(len)
         IN  (1 + Shr(n1[2], BLOCK_DIV_SHIFT)) % 65536

block_count_for(len) ==
    IF len = <<0, 0>> THEN 0
    ELSE LET n1 == U32Pred(len)
         IN  (1 + ((n1[1] % 256) * 256 + Shr(n1[2], BLOCK_DIV_SHIFT))) % 65536

\* A variant of check_len that also refuses a length of exactly
\* IMAGE_MAX_BYTES; C8 must tell it from the code.
check_len_strict(h, evs, stopAt) ==
    IF U32Gt(h.length, IMAGE_MAX_BYTES) \/ h.length = IMAGE_MAX_BYTES
    THEN [ok |-> FALSE,
          events |-> Emit(evs, [type |-> "InvalidImageLength",
                                actual |-> h.length], stopAt)]
    ELSE LET bc == block_count_for(h.length)
         IN  IF h.block_count # bc
             THEN [ok |-> FALSE,
                   events |-> Emit(evs, [type |-> "InvalidBlockCount",
                                         actual |-> h.block_count,
                                         expected |-> bc], stopAt)]
             ELSE [ok |-> TRUE, events |-> evs]

\* BlockHeader::check_len: the handler's answer is not looked at.
check_len(h, evs, stopAt) ==
    IF U32Gt(h.length, IMAGE_MAX_BYTES)
    THEN [ok |-> FALSE,
          events |-> Emit(evs, [type |-> "InvalidImageLength",
                                actual |-> h.length], stopAt)]
    ELSE LET bc == block_count_for(h.length)
         IN  IF h.block_count # bc
             THEN [ok |-> FALSE,
                   events |-> Emit(evs, [type |-> "InvalidBlockCount",
                                         actual |-> h.block_count,
                                         expected |-> bc], stopAt)]
             ELSE [ok |-> TRUE, events |-> evs]

\* A variant of match_field that reports the first mismatch only; C9 must
\* tell it from the code.
match_field_first(r, differs, e, stopAt) ==
    IF r.stop \/ ~r.ok \/ ~differs THEN r
    ELSE LET evs == Emit(r.events, e, stopAt)
         IN  [ok |-> FALSE, stop |-> LastAns(evs) = "Err", events |-> evs]

\* One `if self.f != other.f { handler.on(..)?; result = Err(()) }` of
\* check_match, applied to what the ifs before it left: r.stop is the `?`
\* having returned.
match_field(r, differs, e, stopAt) ==
    IF r.stop \/ ~differs THEN r
    ELSE LET evs == Emit(r.events, e, stopAt)
         IN  [ok |-> FALSE, stop |-> LastAns(evs) = "Err", events |-> evs]

\* BlockHeader::check_match
check_match(h, other, evs0, stopAt) ==
    LET r0 == [ok |-> TRUE, stop |-> FALSE, events |-> evs0]
        r1 == match_field(r0, h.version # other.version,
                  [type |-> "InconsistentVersion", actual |-> h.version,
                   expected |-> other.version, index |-> h.block_index], stopAt)
        r2 == match_field(r1, h.checksum # other.checksum,
                  [type |-> "InconsistentChecksum", actual |-> h.checksum,
                   expected |-> other.checksum, index |-> h.block_index], stopAt)
        r3 == match_field(r2, h.length # other.length,
                  [type |-> "InconsistentImageLength", actual |-> h.length,
                   expected |-> other.length, index |-> h.block_index], stopAt)
        r4 == match_field(r3, h.block_count # other.block_count,
                  [type |-> "InconsistentBlockCount", actual |-> h.block_count,
                   expected |-> other.block_count, index |-> h.block_index], stopAt)
    IN  r4

\* A variant of BlockDecoderState_new whose image buffer is not cleared;
\* C20 must tell it from the code.
BlockDecoderState_new_dirty(t, header) ==
    LET n == header.block_count
    IN  [header      |-> header,
         blocks_done |-> BoolArray_new(t, n),
         image       |-> [i \in 1..(n * Pow2(BLOCK_DIV_SHIFT)) |-> 255]]

\* BlockDecoderState::new
BlockDecoderState_new(t, header) ==
    LET n == header.block_count
    IN  [header      |-> header,
         blocks_done |-> BoolArray_new(t, n),
         image       |-> [i \in 1..(n * Pow2(BLOCK_DIV_SHIFT)) |-> 0]]

\* block_range(index): start..end, 0-based and end-exclusive.
block_range(index) ==
    LET start == index * Pow2(BLOCK_DIV_SHIFT)
    IN  [start |-> start, end |-> start + BLOCK_DATA_LEN]

\* A variant of write_range that clears the image outside the range; C35
\* must tell it from the code.
write_range_clear(t, st, index, data, r) ==
    IF r.end > Len(st.image) \/ Len(data) # r.end - r.start
    THEN [panic |-> TRUE, state |-> st, was |-> FALSE]
    ELSE LET img == [i \in 1..Len(st.image) |->
                        IF r.start < i /\ i <= r.end
                        THEN data[i - r.start] ELSE 0]
             s   == BoolArray_set(t, st.blocks_done, index)
         IN  [panic |-> s.panic,
              state |-> [st EXCEPT !.image = img, !.blocks_done = s.array],
              was   |-> s.was]

\* A variant of write_range that leaves the seen bit as it was; C36 must
\* tell it from the code.
write_range_unmarked(t, st, index, data, r) ==
    IF r.end > Len(st.image) \/ Len(data) # r.end - r.start
    THEN [panic |-> TRUE, state |-> st, was |-> FALSE]
    ELSE LET img == [i \in 1..Len(st.image) |->
                        IF r.start < i /\ i <= r.end
                        THEN data[i - r.start] ELSE st.image[i]]
             s   == BoolArray_set(t, st.blocks_done, index)
         IN  [panic |-> s.panic,
              state |-> [st EXCEPT !.image = img],
              was   |-> s.was]

\* BlockDecoderState::write_block with r = block_range(index): slicing past
\* the image panics, and so does copy_from_slice on slices of different
\* lengths.
write_range(t, st, index, data, r) ==
    IF r.end > Len(st.image) \/ Len(data) # r.end - r.start
    THEN [panic |-> TRUE, state |-> st, was |-> FALSE]
    ELSE LET img == [i \in 1..Len(st.image) |->
                        IF r.start < i /\ i <= r.end
                        THEN data[i - r.start] ELSE st.image[i]]
             s   == BoolArray_set(t, st.blocks_done, index)
         IN  [panic |-> s.panic,
              state |-> [st EXCEPT !.image = img, !.blocks_done = s.array],
              was   |-> s.was]

write_block(t, st, index, data) ==
    write_range(t, st, index, data, block_range(index))

\* checksum(bytes): the loop over elements i..j, in order.  (The test on
\* s only makes TLC evaluate the running sum at every step.)
RECURSIVE checksum_loop(_, _, _, _)
checksum_loop(bs, i, j, sum) ==
    IF i > j THEN sum
    ELSE LET s == wrapping_add(sum, <<0, bs[i]>>)
         IN  IF s[1] >= 0 THEN checksum_loop(bs, i + 1, j, s) ELSE s

\* The same loop over the whole slice, run a stretch of 32 elements at a
\* time to bound the depth of the evaluation.
RECURSIVE checksum_from(_, _, _)
checksum_from(bs, i, sum) ==
    IF i > Len(bs) THEN sum
    ELSE LET j == IF i + 31 < Len(bs) THEN i + 31 ELSE Len(bs)
             s == checksum_loop(bs, i, j, sum)
         IN  IF s[1] >= 0 THEN checksum_from(bs, j + 1, s) ELSE s

checksum(bs) == checksum_from(bs, 1, <<0, 0>>)

\* A variant of state_image that returns the whole buffer; C2 must tell it
\* from the code.
state_image_whole(st) == st.image

\* BlockDecoderState::image
state_image(st) == SubSeq(st.image, 1, U32AsUsize(st.header.length))

\* BlockDecoder::new
BlockDecoder_new(capacity) == [state |-> None, capacity |-> capacity]

\* BlockDecoder::decode_block, in its three parts.  The result is the
\* decoder afterwards, the handler invocations, what was returned, whether
\* the call panicked, what from_bytes returned (f) and whether the payload
\* was written.
Outcome(d, evs, r, f, panic, wrote) ==
    [dec |-> d, events |-> evs, ret |-> r, fb |-> f, panic |-> panic,
     wrote |-> wrote]

\* A variant of decode_write that keeps the payload first written for a
\* block; C6 must tell it from the code.
decode_write_keep(d, f, evs, w, stopAt) ==
    IF w.panic THEN Outcome(d, evs, "panic", f, TRUE, FALSE)
    ELSE IF ~w.was
    THEN Outcome([d EXCEPT !.state = Some(w.state)], evs, "Ok", f, FALSE, TRUE)
    ELSE Outcome(d,
                 Emit(evs, [type |-> "DuplicateBlock",
                            index |-> f.header.block_index], stopAt),
                 on(Len(evs) + 1, stopAt), f, FALSE, TRUE)

\* "Write block data": d is the decoder with its state in place (created
\* from the first block's header, or the one it had) and w is what
\* write_block returned on that state.
decode_write(d, f, evs, w, stopAt) ==
    IF w.panic THEN Outcome(d, evs, "panic", f, TRUE, FALSE)
    ELSE IF ~w.was
    THEN Outcome([d EXCEPT !.state = Some(w.state)], evs, "Ok", f, FALSE, TRUE)
    ELSE Outcome([d EXCEPT !.state = Some(w.state)],
                 Emit(evs, [type |-> "DuplicateBlock",
                            index |-> f.header.block_index], stopAt),
                 on(Len(evs) + 1, stopAt), f, FALSE, TRUE)

\* "Check block header": chk is what check_len (on the first block) or
\* check_match returned; st is the state the block is written to.
decode_state(t, d, f, evs, st, stopAt) ==
    decode_write([d EXCEPT !.state = Some(st)], f, evs,
                 write_block(t, st, f.header.block_index, f.data), stopAt)

\* A variant of decode_check that creates the state from the header of a
\* first block that fails check_len; C33 must tell it from the code.
decode_check_eager(t, d, f, chk, stopAt) ==
    IF ~chk.ok
    THEN Outcome(IF d.state.some THEN d
                 ELSE [d EXCEPT !.state = Some(BlockDecoderState_new(t, f.header))],
                 chk.events, "Err", f, FALSE, FALSE)
    ELSE IF ~d.state.some
    THEN decode_state(t, d, f, chk.events, BlockDecoderState_new(t, f.header),
                      stopAt)
    ELSE decode_state(t, d, f, chk.events, d.state.value, stopAt)

\* A variant of decode_check that writes a later block that fails
\* check_match when the handler continued at every event; C34 must tell it
\* from the code.
decode_check_lenient(t, d, f, chk, stopAt) ==
    IF ~chk.ok /\ ~(d.state.some /\ \A i \in 1..Len(chk.events) :
                                       chk.events[i].ans = "Ok")
    THEN Outcome(d, chk.events, "Err", f, FALSE, FALSE)
    ELSE IF ~d.state.some
    THEN decode_state(t, d, f, chk.events, BlockDecoderState_new(t, f.header),
                      stopAt)
    ELSE decode_state(t, d, f, chk.events, d.state.value, stopAt)

decode_check(t, d, f, chk, stopAt) ==
    IF ~chk.ok THEN Outcome(d, chk.events, "Err", f, FALSE, FALSE)
    ELSE IF ~d.state.some
    THEN decode_state(t, d, f, chk.events, BlockDecoderState_new(t, f.header),
                      stopAt)
    ELSE decode_state(t, d, f, chk.events, d.state.value, stopAt)

\* "Read block": f is what Block::from_bytes returned.
decode_read(t, d, f, stopAt) ==
    IF f.tag = "Err"
    THEN Outcome(d, f.events, IF f.err THEN "Ok" ELSE "Err", f, FALSE, FALSE)
    ELSE IF ~d.state.some
    THEN decode_check(t, d, f, check_len(f.header, f.events, stopAt), stopAt)
    ELSE decode_check(t, d, f,
                      check_match(f.header, d.state.value.header, f.events, stopAt),
                      stopAt)

decode_block(t, d, bs, stopAt) ==
    decode_read(t, d, from_bytes(t, bs, stopAt), stopAt)

\* BlockDecoder::image, "Validate checksum": evs are the invocations made
\* so far, img is state.image() and sum its checksum.
image_sum(st, evs, img, sum, stopAt) ==
    IF sum = st.header.checksum
    THEN [events |-> evs, ret |-> [tag |-> "Ok", image |-> img]]
    ELSE [events |-> Emit(evs, [type |-> "ChecksumMismatch", actual |-> sum,
                                expected |-> st.header.checksum], stopAt),
          ret    |-> IF on(Len(evs) + 1, stopAt) = "Err" THEN [tag |-> "Err"]
                     ELSE [tag |-> "Ok", image |-> img]]

\* A variant of image_checked that sums the whole buffer; C5 must tell it
\* from the code.
image_checked_whole(st, evs, img, stopAt) ==
    image_sum(st, evs, img, checksum(st.image), stopAt)

image_checked(st, evs, img, stopAt) ==
    image_sum(st, evs, img, checksum(img), stopAt)

\* BlockDecoder::image, "Check for missing blocks": miss is what
\* first_missing_block returned.
image_missing(st, miss, stopAt) ==
    IF ~miss.some THEN image_checked(st, <<>>, state_image(st), stopAt)
    ELSE IF on(1, stopAt) = "Err"
    THEN [events |-> Emit(<<>>, [type |-> "MissingBlock", index |-> miss.value],
                          stopAt),
          ret    |-> [tag |-> "Err"]]
    ELSE image_checked(st,
                       Emit(<<>>, [type |-> "MissingBlock", index |-> miss.value],
                            stopAt),
                       state_image(st), stopAt)

\* BlockDecoder::image
image(t, d, stopAt) ==
    IF ~d.state.some
    THEN [events |-> Emit(<<>>, [type |-> "MissingBlock", index |-> 0], stopAt),
          ret    |-> IF on(1, stopAt) = "Err" THEN [tag |-> "Err"]
                     ELSE [tag |-> "Ok", image |-> <<>>]]
    ELSE image_missing(d.state.value, first_false(t, d.state.value.blocks_done),
                       stopAt)

(***************************************************************************)
(* The blocks given to the decoder.                                        *)
(***************************************************************************)
be_u16(x) == <<x \div 256, x % 256>>
be_u32(u) == be_u16(u[1]) \o be_u16(u[2])

Versions == {<<1, 515>>, <<65518, 56780>>}      \* 0x00010203, 0xFFEEDDCC
Fills    == {165, 60}                           \* 0xA5, 0x3C

\* A 256-byte payload: a ramp from f.
Payload(f) == [i \in 1..BLOCK_DATA_LEN |-> (f + i - 1) % 256]

\* Image lengths: none, one that ends inside its second block, the full
\* MaxBlocks blocks, the maximum and one past it.
Lengths == {<<0, 0>>, <<0, 300>>, U32(256 * MaxBlocks), <<32, 0>>, <<32, 1>>}

CeilBlocks(len) == (U32AsUsize(len) + 255) \div 256

\* The block counts tried with a length: the right one where the model can
\* hold the image, and MaxBlocks.
CountsFor(len) ==
    (IF U32Gt(len, U32(256 * MaxBlocks)) THEN {} ELSE {CeilBlocks(len)})
    \cup {MaxBlocks}

\* The fill of block i in image pattern k: all blocks alike (1), or
\* alternating (2).
PatternFill(k, i) == IF k = 1 \/ i % 2 = 0 THEN 165 ELSE 60

\* The sum of f[lo..hi].
RECURSIVE SumRange(_, _, _)
SumRange(f, lo, hi) ==
    IF lo > hi THEN 0
    ELSE IF lo = hi THEN f[lo]
    ELSE LET mid == (lo + hi) \div 2
         IN  SumRange(f, lo, mid) + SumRange(f, mid + 1, hi)

\* The image of n bytes whose blocks follow pattern k.
PatternImage(n, k) ==
    [i \in 1..n |-> (PatternFill(k, (i - 1) \div 256) + ((i - 1) % 256)) % 256]

\* The checksum of the image of length len whose blocks follow pattern k.
PatternSum(len, k) ==
    IF U32Gt(len, U32(256 * MaxBlocks)) THEN <<65535, 65530 + k>>
    ELSE LET n == U32AsUsize(len)
         IN  U32(SumRange(PatternImage(n, k), 1, n))

BlockLens == {271, 272, 273}

Inputs ==
    { [version |-> v, pattern |-> k, length |-> l, block_count |-> c,
       block_index |-> x, fill |-> f, n |-> n] :
        v \in Versions, k \in {1, 2}, l \in Lengths, c \in 0..MaxBlocks,
        x \in 0..MaxBlocks, f \in Fills, n \in BlockLens }

\* The inputs tried: every pattern, index and fill with the first version;
\* the second version and the wrong lengths with one pattern and one fill.
Wanted(in) ==
    /\ in.block_count \in CountsFor(in.length)
    /\ in.version # <<1, 515>> => (in.pattern = 1 /\ in.fill = 165)
    /\ in.n # 272 => /\ in.version = <<1, 515>>
                     /\ in.pattern = 1
                     /\ in.fill = 165
                     /\ in.block_index <= 1

\* The bytes of an input: the 272 bytes of the block, cut or padded to n.
BlockBytes(in) ==
    LET full == be_u32(in.version) \o be_u32(PatternSum(in.length, in.pattern))
                \o be_u32(in.length) \o be_u16(in.block_count)
                \o be_u16(in.block_index) \o Payload(in.fill)
    IN  IF in.n <= Len(full) THEN SubSeq(full, 1, in.n)
        ELSE full \o [i \in 1..(in.n - Len(full)) |-> 238]

\* The inputs with their bytes.
InputBlocks == {[in |-> i, bytes |-> BlockBytes(i)] : i \in {j \in Inputs : Wanted(j)}}

\* The block of the test block_from_bytes_ok: bytes 00..0F, then 00..FF.
TestBlock ==
    [i \in 1..(BLOCK_HEAD_LEN + BLOCK_DATA_LEN) |->
        IF i <= BLOCK_HEAD_LEN THEN i - 1 ELSE i - 1 - BLOCK_HEAD_LEN]

Capacities == {IMAGE_MAX_BYTES}

NewDecoder ==
    /\ \E c \in Capacities : dec = BlockDecoder_new(c)
    /\ op = "new"
    /\ block = <<>>
    /\ fb = [tag |-> "none"]
    /\ events = <<>>
    /\ ret = "none"
    /\ written = <<>>
    /\ dup_ever = FALSE

\* Decoders made with a capacity below the maximum: none, and one block.
SmallCapacities == {U32(0), U32(BLOCK_DATA_LEN)}

NewSmallDecoder ==
    /\ \E c \in SmallCapacities : dec = BlockDecoder_new(c)
    /\ op = "new"
    /\ block = <<>>
    /\ fb = [tag |-> "none"]
    /\ events = <<>>
    /\ ret = "none"
    /\ written = <<>>
    /\ dup_ever = FALSE

InitDecoder == target = DefaultTarget /\ NewDecoder

DecoderOff ==
    /\ dec = BlockDecoder_new(IMAGE_MAX_BYTES)
    /\ op = "off"
    /\ block = <<>>
    /\ fb = [tag |-> "none"]
    /\ events = <<>>
    /\ ret = "none"
    /\ written = <<>>
    /\ dup_ever = FALSE

IdleDecoder == target = DefaultTarget /\ DecoderOff

\* decoder.decode_block(block) with a handler that stops at event stopAt
\* (0: never); stopAt ranges over the events the call can reach.
DecodeBlock ==
    /\ op \in {"new", "idle"}
    /\ \E ib \in InputBlocks :
       \E r0 \in {decode_block(target, dec, ib.bytes, 0)} :
       \E stopAt \in 0..Len(r0.events) :
       \E r \in {IF stopAt = 0 THEN r0
                 ELSE decode_block(target, dec, ib.bytes, stopAt)} :
          /\ dec' = r.dec
          /\ op' = IF r.panic THEN "panic" ELSE "decode_block"
          /\ block' = ib.bytes
          /\ fb' = [f \in DOMAIN r.fb \ {"events"} |-> r.fb[f]]
          /\ events' = r.events
          /\ ret' = r.ret
          /\ written' =
                IF r.wrote
                THEN [i \in DOMAIN written \cup {ib.in.block_index} |->
                         IF i = ib.in.block_index THEN ib.in.fill
                         ELSE written[i]]
                ELSE written
          /\ dup_ever' = (dup_ever \/
                          (r.wrote /\ ib.in.block_index \in DOMAIN written))
    /\ UNCHANGED target

\* decoder.image() with a handler that stops at event stopAt (0: never).
Image ==
    /\ op \in {"new", "idle"}
    /\ \E r0 \in {image(target, dec, 0)} :
       \E stopAt \in 0..Len(r0.events) :
       \E r \in {IF stopAt = 0 THEN r0 ELSE image(target, dec, stopAt)} :
          /\ op' = "image"
          /\ events' = r.events
          /\ ret' = r.ret
    /\ block' = <<>>
    /\ fb' = [tag |-> "none"]
    /\ UNCHANGED <<target, dec, written, dup_ever>>

\* Block::from_bytes(block, handler) called on its own, as the tests do.
FromBytes ==
    /\ op = "new"
    /\ \E bs \in {ib.bytes : ib \in InputBlocks} \cup {TestBlock} :
       \E stopAt \in 0..1 :
       \E f \in {from_bytes(target, bs, stopAt)} :
          /\ op' = "from_bytes"
          /\ block' = bs
          /\ fb' = [k \in DOMAIN f \ {"events"} |-> f[k]]
          /\ events' = f.events
    /\ UNCHANGED <<target, dec, ret, written, dup_ever>>

\* The caller lets go of what the last operation returned; the decoder
\* stays as it is.
Drop ==
    /\ op \in {"decode_block", "image"}
    /\ op' = "idle"
    /\ block' = <<>>
    /\ fb' = [tag |-> "none"]
    /\ events' = <<>>
    /\ ret' = "none"
    /\ UNCHANGED <<target, dec, written, dup_ever>>

(***************************************************************************)
(* A BoolArray used on its own, as the tests of src/util/bitmap.rs do.     *)
(***************************************************************************)
\* The lengths tried: none, one bit, the 11 and 123 of the tests, and the
\* lengths around one and two words of either width.
BitLens == {0, 1, 11, 32, 33, 64, 65, 123}

\* The indexes given to get, set and clear on an array of length n: the
\* ends of the words, those of the tests (7 and 8 on the arrays of one
\* word, 67 and 99), the last one, and n itself, which is out of bounds.
BitIndexes(n) ==
    {i \in {0, 7, 8, 31, 32, 64, 67, 99, n - 1} :
        /\ 0 <= i
        /\ i < n
        /\ i \in {7, 8} => n < 32} \cup {n}

\* BoolArray::new(len)
InitBitmap ==
    /\ \E n \in BitLens :
          /\ arr = BoolArray_new(target, n)
          /\ truth = [i \in 0..(n - 1) |-> FALSE]
    /\ aop = [kind |-> "new"]
    /\ aret = [tag |-> "none"]

IdleBitmap ==
    /\ arr = BoolArray_new(DefaultTarget, 0)
    /\ truth = <<>>
    /\ aop = [kind |-> "off"]
    /\ aret = [tag |-> "none"]

BitmapInUse == aop.kind \notin {"off", "panic"}

\* a.set(i)
BitSet ==
    /\ BitmapInUse
    /\ \E i \in BitIndexes(arr.len) :
       \E r \in {BoolArray_set(target, arr, i)} :
          IF r.panic
          THEN /\ aop' = [kind |-> "panic"]
               /\ aret' = [tag |-> "none"]
               /\ UNCHANGED <<arr, truth>>
          ELSE /\ arr' = r.array
               /\ aop' = [kind |-> "set", index |-> i]
               /\ aret' = [was |-> r.was]
               /\ truth' = [truth EXCEPT ![i] = TRUE]

\* a.clear(i)
BitClear ==
    /\ BitmapInUse
    /\ \E i \in BitIndexes(arr.len) :
       \E r \in {BoolArray_clear(target, arr, i)} :
          IF r.panic
          THEN /\ aop' = [kind |-> "panic"]
               /\ aret' = [tag |-> "none"]
               /\ UNCHANGED <<arr, truth>>
          ELSE /\ arr' = r.array
               /\ aop' = [kind |-> "clear", index |-> i]
               /\ aret' = [was |-> r.was]
               /\ truth' = [truth EXCEPT ![i] = FALSE]

\* a.get(i); its assert panics when i is out of bounds.
BitGet ==
    /\ BitmapInUse
    /\ \E i \in BitIndexes(arr.len) :
          IF ~(i < arr.len)
          THEN /\ aop' = [kind |-> "panic"]
               /\ aret' = [tag |-> "none"]
          ELSE /\ aop' = [kind |-> "get", index |-> i]
               /\ aret' = [value |-> BoolArray_get(target, arr, i)]
    /\ UNCHANGED <<arr, truth>>

\* The array after a.set(i) for every i in k..j, in order.
RECURSIVE set_range(_, _, _, _)
set_range(t, a, k, j) ==
    IF k > j THEN a
    ELSE LET b == BoolArray_set(t, a, k).array
         IN  IF b.len >= 0 THEN set_range(t, b, k + 1, j) ELSE b

\* The same for every i from k on, a stretch of 32 indexes at a time to
\* bound the depth of the evaluation.
RECURSIVE set_from(_, _, _)
set_from(t, a, k) ==
    IF k >= a.len THEN a
    ELSE LET j == IF k + 31 < a.len THEN k + 31 ELSE a.len - 1
             b == set_range(t, a, k, j)
         IN  IF b.len >= 0 THEN set_from(t, b, j + 1) ELSE b

\* for i in 0..a.len() { a.set(i); } on a new array, as first_false_none
\* does.
BitSetAll ==
    /\ aop.kind = "new"
    /\ arr' = set_from(target, arr, 0)
    /\ aop' = [kind |-> "set_all"]
    /\ aret' = [tag |-> "none"]
    /\ truth' = [i \in DOMAIN truth |-> TRUE]

\* a.first_false()
FirstFalse ==
    /\ BitmapInUse
    /\ aop' = [kind |-> "first_false"]
    /\ aret' = first_false(target, arr)
    /\ UNCHANGED <<arr, truth>>

(***************************************************************************)
(* block_count_for called on its own.                                      *)
(***************************************************************************)
\* The image lengths tried, none above IMAGE_MAX_BYTES (check_len calls
\* block_count_for on no other): the multiples of the block size up to 16
\* blocks, around 2^16 and 2^20 bytes and at the maximum, each with the
\* lengths one below and one above.
CountLengths ==
    {U32(n) : n \in {BLOCK_DATA_LEN * k + d :
                        k \in 0..16 \cup {255, 256, 257, 4095, 4096, 8191, 8192},
                        d \in {-1, 0, 1}}
                    \cap 0..U32AsUsize(IMAGE_MAX_BYTES)}

InitCount ==
    \E l \in CountLengths : bcf = [pc |-> "start", len |-> l, count |-> 0]

IdleCount == bcf = [pc |-> "off", len |-> <<0, 0>>, count |-> 0]

\* block_count_for(len)
BlockCountFor ==
    /\ bcf.pc = "start"
    /\ bcf' = [pc |-> "done", len |-> bcf.len,
               count |-> block_count_for(bcf.len)]

(***************************************************************************)
(* Input (src/io.rs) over a buffered stream.                               *)
(***************************************************************************)
\* BufRead::fill_buf on a stream whose buffer holds at most cap bytes:
\* the next bytes, none at the end of the stream.
fill_buf(st, cap) ==
    SubSeq(st.data, st.pos + 1,
           IF st.pos + cap < Len(st.data) THEN st.pos + cap ELSE Len(st.data))

\* BufRead::consume(count)
consume(st, count) == [st EXCEPT !.pos = @ + count]

\* The loop of Input::skip_until from its iteration number iter on; pred is
\* the set of the bytes the predicate accepts.  fill_buf fails with an
\* error that is not Interrupted at iteration failAt (0: never); an
\* Interrupted error makes the loop try again and changes nothing.
RECURSIVE skip_until_loop(_, _, _, _, _, _, _)
skip_until_loop(in, st, pred, cap, failAt, iter, total) ==
    IF iter = failAt
    THEN [inp |-> in, src |-> st, ret |-> [tag |-> "Err", kind |-> "Other"]]
    ELSE LET buf   == fill_buf(st, cap)
             hits  == {i \in 1..Len(buf) : buf[i] \in pred}
             found == hits # {}
             count == IF found THEN Min(hits) - 1 ELSE Len(buf)
             st2   == consume(st, count)
             in2   == [in EXCEPT !.offset = @ + count]
         IN  IF found \/ count = 0
             THEN [inp |-> in2, src |-> st2,
                   ret |-> [tag |-> "Ok", found |-> found,
                            count |-> total + count]]
             ELSE skip_until_loop(in2, st2, pred, cap, failAt, iter + 1,
                                  total + count)

\* Input::skip_until(predicate)
Input_skip_until(in, st, pred, cap, failAt) ==
    skip_until_loop(in, st, pred, cap, failAt, 1, 0)

\* Input::read_until(byte, buf): BufRead::read_until of the stream, which
\* consumes the bytes up to and including the first `byte`, or all of them.
Input_read_until(in, st, byte) ==
    LET rest == SubSeq(st.data, st.pos + 1, Len(st.data))
        hits == {i \in 1..Len(rest) : rest[i] = byte}
        n    == IF hits # {} THEN Min(hits) ELSE Len(rest)
    IN  [inp |-> in, src |-> consume(st, n),
         ret |-> [tag |-> "Ok", count |-> n, buf |-> SubSeq(rest, 1, n)]]

\* Input::read_exact(buf) for a buf of n bytes.  When the stream ends
\* before n bytes, Read::read_exact fails with UnexpectedEof having
\* consumed `eaten` bytes: none or all that were left, as the stream's
\* implementation has it.
Input_read_exact(in, st, n, eaten) ==
    IF st.pos + n <= Len(st.data)
    THEN [inp |-> [in EXCEPT !.offset = @ + n], src |-> consume(st, n),
          ret |-> [tag |-> "Ok"]]
    ELSE [inp |-> in, src |-> consume(st, eaten),
          ret |-> [tag |-> "Err", kind |-> "UnexpectedEof",
                   at |-> in.offset]]

InputBytes == {18, 52, 240}

\* The predicates given to skip_until, as the sets of bytes they accept.
Predicates == {{240}, {52, 240}, {86}}

\* Input::new(stream, name)
InitInput ==
    /\ inp = [offset |-> 0]
    /\ \E d \in SeqsUpTo(InputBytes, MaxInput) : isrc = [data |-> d, pos |-> 0]
    /\ iop = [kind |-> "new"]

IdleInput ==
    /\ inp = [offset |-> 0]
    /\ isrc = [data |-> <<>>, pos |-> 0]
    /\ iop = [kind |-> "off"]

SkipUntil ==
    /\ iop.kind # "off"
    /\ \E pred \in Predicates, cap \in 1..MaxBuf, failAt \in 0..2 :
       \E r \in {Input_skip_until(inp, isrc, pred, cap, failAt)} :
          /\ inp' = r.inp
          /\ isrc' = r.src
          /\ iop' = [kind |-> "skip_until", ret |-> r.ret]

ReadUntil ==
    /\ iop.kind # "off"
    /\ \E byte \in InputBytes :
       \E r \in {Input_read_until(inp, isrc, byte)} :
          /\ inp' = r.inp
          /\ isrc' = r.src
          /\ iop' = [kind |-> "read_until", ret |-> r.ret]

ReadExact ==
    /\ iop.kind # "off"
    /\ \E n \in 0..MaxBuf, all \in BOOLEAN :
       \E r \in {Input_read_exact(inp, isrc, n,
                     IF all THEN Len(isrc.data) - isrc.pos ELSE 0)} :
          /\ inp' = r.inp
          /\ isrc' = r.src
          /\ iop' = [kind |-> "read_exact", ret |-> r.ret]

(***************************************************************************)
(* BufReadExt::scan_until_bits (src/io.rs) and FindBits (src/util.rs).     *)
(***************************************************************************)
\* [u8]::find_bits(bits, mask): the index (0-based) and value of the first
\* byte whose masked bits are those of bits.  The code compares byte by
\* byte up to a word boundary, skips the whole words in which has_zero_byte
\* finds no matching byte, and compares byte by byte again from the first
\* word that has one, or from the last word boundary.
find_bits(buf, bits, mask) ==
    LET b    == BitAnd(bits, mask)
        hits == {i \in 1..Len(buf) : BitAnd(buf[i], mask) = b}
    IN  IF hits = {} THEN None
        ELSE Some([index |-> Min(hits) - 1, item |-> buf[Min(hits)]])

\* A variant of scan_step that loses a byte of the stream when fill_buf is
\* interrupted; C39 must tell it from the code.
scan_step_lossy(s, outcome) ==
    IF outcome = "Interrupted" THEN consume(s, 1)
    ELSE IF outcome = "Other"
    THEN [s EXCEPT !.pc = "done", !.ret = [tag |-> "Err", kind |-> "Other"]]
    ELSE LET buf == fill_buf(s, s.cap) IN
         IF Len(buf) = 0
         THEN [s EXCEPT !.pc = "done",
                        !.ret = [tag |-> "Ok", count |-> s.consumed,
                                 found |-> None]]
         ELSE LET m     == find_bits(buf, s.bits, s.mask)
                  count == IF m.some THEN m.value.index + 1 ELSE Len(buf)
                  found == IF m.some THEN Some(m.value.item) ELSE None
                  fed   == IF ~m.some THEN Append(s.fed, buf)
                           ELSE IF m.value.index = 0 THEN s.fed
                           ELSE Append(s.fed, SubSeq(buf, 1, m.value.index))
                  t     == [consume(s, count) EXCEPT
                               !.consumed = @ + count, !.fed = fed]
              IN  IF m.some
                  THEN [t EXCEPT !.pc = "done",
                                 !.ret = [tag |-> "Ok", count |-> t.consumed,
                                          found |-> found]]
                  ELSE t

\* One iteration of the loop of scan_until_bits, in which fill_buf returns
\* a chunk ("Ok"; empty at the end of the stream), an Interrupted error or
\* another error.
scan_step(s, outcome) ==
    IF outcome = "Interrupted" THEN s
    ELSE IF outcome = "Other"
    THEN [s EXCEPT !.pc = "done", !.ret = [tag |-> "Err", kind |-> "Other"]]
    ELSE LET buf == fill_buf(s, s.cap) IN
         IF Len(buf) = 0
         THEN [s EXCEPT !.pc = "done",
                        !.ret = [tag |-> "Ok", count |-> s.consumed,
                                 found |-> None]]
         ELSE LET m     == find_bits(buf, s.bits, s.mask)
                  count == IF m.some THEN m.value.index + 1 ELSE Len(buf)
                  found == IF m.some THEN Some(m.value.item) ELSE None
                  fed   == IF ~m.some THEN Append(s.fed, buf)
                           ELSE IF m.value.index = 0 THEN s.fed
                           ELSE Append(s.fed, SubSeq(buf, 1, m.value.index))
                  t     == [consume(s, count) EXCEPT
                               !.consumed = @ + count, !.fed = fed]
              IN  IF m.some
                  THEN [t EXCEPT !.pc = "done",
                                 !.ret = [tag |-> "Ok", count |-> t.consumed,
                                          found |-> found]]
                  ELSE t

\* scan_until_bits on a stream that never fails.
RECURSIVE scan_until_bits(_)
scan_until_bits(s) ==
    IF s.pc = "done" THEN s ELSE scan_until_bits(scan_step(s, "Ok"))

\* The bits and masks searched for: F0 exactly (as skip_until_bits_found
\* does with 56), a high nibble of 1, the bits of 34 given with others set
\* outside the mask, and a byte that is not in the stream.
Patterns ==
    {[bits |-> 240, mask |-> 255], [bits |-> 16, mask |-> 240],
     [bits |-> 255, mask |-> 52], [bits |-> 10, mask |-> 255]}

\* The Interrupted errors one call of scan_until_bits meets, at most.
MaxInterrupts == 2

\* scan_until_bits(bits, mask, f) is entered.
ScanStart(data, cap, p) ==
    [pc |-> "loop", data |-> data, pos |-> 0, cap |-> cap,
     bits |-> p.bits, mask |-> p.mask, consumed |-> 0, fed |-> <<>>,
     outcomes |-> <<>>, ret |-> [tag |-> "none"]]

InitScan ==
    \E data \in SeqsUpTo(InputBytes, MaxInput), cap \in 1..MaxBuf,
       p \in Patterns :
          scan = ScanStart(data, cap, p)

IdleScan ==
    scan = [ScanStart(<<>>, 0, [bits |-> 0, mask |-> 0]) EXCEPT !.pc = "off"]

\* An iteration in which fill_buf returns the next chunk.
ScanChunk ==
    /\ scan.pc = "loop"
    /\ scan' = [scan_step(scan, "Ok") EXCEPT !.outcomes = Append(@, "Ok")]

\* An iteration in which fill_buf is interrupted.
ScanInterrupted ==
    /\ scan.pc = "loop"
    /\ Cardinality({i \in 1..Len(scan.outcomes) :
                       scan.outcomes[i] = "Interrupted"}) < MaxInterrupts
    /\ scan' = [scan_step(scan, "Interrupted") EXCEPT
                   !.outcomes = Append(@, "Interrupted")]

\* An iteration in which fill_buf fails for good.
ScanError ==
    /\ scan.pc = "loop"
    /\ scan' = [scan_step(scan, "Other") EXCEPT
                   !.outcomes = Append(@, "Other")]

(***************************************************************************)
(* recognize_sysex (src/a6/mod.rs).                                        *)
(***************************************************************************)
OPCODE_POS == 4
DATA_POS   == 5

\* Manufacturer/device identifier bytes.
ID == <<0, 0, 14, 29>>

\* enum Opcode, repr(u8): the variants with their discriminants.
Opcode ==
    {[name |-> "PgmDump",           value |-> 0],
     [name |-> "PgmDumpReq",        value |-> 1],
     [name |-> "PgmEditBufDump",    value |-> 2],
     [name |-> "PgmEditBufDumpReq", value |-> 3],
     [name |-> "MixDump",           value |-> 4],
     [name |-> "MixDumpReq",        value |-> 5],
     [name |-> "MixEditBufDump",    value |-> 6],
     [name |-> "MixEditBufDumpReq", value |-> 7],
     [name |-> "GlobalDataDump",    value |-> 8],
     [name |-> "GlobalDataDumpReq", value |-> 9],
     [name |-> "PgmBankReq",        value |-> 10],
     [name |-> "MkxBankReq",        value |-> 11],
     [name |-> "DumpAllReq",        value |-> 12],
     [name |-> "ModeSelect",        value |-> 13],
     [name |-> "Edit",              value |-> 14],
     [name |-> "UpdateOs",          value |-> 48],
     [name |-> "UpdateBoot",        value |-> 63]}

\* transmute(opcode) of a byte that is the discriminant of a variant.
transmute_opcode(b) == (CHOOSE v \in Opcode : v.value = b).name

starts_with(msg, prefix) ==
    /\ Len(msg) >= Len(prefix)
    /\ SubSeq(msg, 1, Len(prefix)) = prefix

\* A variant of recognize_sysex that knows the dump opcodes only; C28 must
\* tell it from the code.
recognize_sysex_dumps(msg) ==
    IF ~starts_with(msg, ID) \/ Len(msg) <= OPCODE_POS THEN None
    ELSE LET opcode == msg[OPCODE_POS + 1]
         IN  IF opcode > 14 THEN None
             ELSE Some([opcode |-> transmute_opcode(opcode),
                        data   |-> SubSeq(msg, DATA_POS + 1, Len(msg))])

recognize_sysex(msg) ==
    IF ~starts_with(msg, ID) \/ Len(msg) <= OPCODE_POS THEN None
    ELSE LET opcode == msg[OPCODE_POS + 1]
         IN  IF opcode > 14 /\ opcode # 48 /\ opcode # 63 THEN None
             ELSE Some([opcode |-> transmute_opcode(opcode),
                        data   |-> SubSeq(msg, DATA_POS + 1, Len(msg))])

\* The messages tried: the id bytes, or bytes that differ from them in one
\* place, then an opcode byte and data, whole or cut short at any length.
Prefixes == {ID, <<0, 255, 14, 29>>, <<0, 0, 14, 30>>, <<240, 0, 14, 29>>}

OpcodeBytes == 0..16 \cup {47, 48, 49, 62, 63, 64, 127, 255}

DataBytes == {<<>>, <<90, 165>>}

Messages ==
    UNION {{SubSeq(m, 1, n) : n \in 0..Len(m)} :
              m \in {pre \o <<b>> \o d :
                        pre \in Prefixes, b \in OpcodeBytes, d \in DataBytes}}

InitRecognize ==
    \E m \in Messages : rec = [pc |-> "start", msg |-> m, ret |-> None]

IdleRecognize == rec = [pc |-> "off", msg |-> <<>>, ret |-> None]

\* recognize_sysex(msg)
Recognize ==
    /\ rec.pc = "start"
    /\ rec' = [pc |-> "done", msg |-> rec.msg, ret |-> recognize_sysex(rec.msg)]

IdleUtil ==
    IdleBitmap /\ IdleCount /\ IdleInput /\ IdleRecognize /\ IdleScan

(***************************************************************************)
(* The specifications: one per component, the others idle.                 *)
(***************************************************************************)
Init == InitDecoder /\ IdleCodec /\ IdleDetector /\ IdleUtil
Next ==
    \/ DecodeBlock /\ UNCHANGED <<codecVars, detVars, utilVars>>
    \/ Image /\ UNCHANGED <<codecVars, detVars, utilVars>>
    \/ Drop /\ UNCHANGED <<codecVars, detVars, utilVars>>
Spec == Init /\ [][Next]_vars

InitP ==
    /\ target = DefaultTarget
    /\ NewSmallDecoder
    /\ IdleCodec /\ IdleDetector /\ IdleUtil
SpecCapacity == InitP /\ [][Next]_vars

InitC == InitCodec /\ IdleDetector /\ IdleDecoder /\ IdleUtil
NextC ==
    \/ Encode /\ UNCHANGED <<target, detVars, decVars, utilVars>>
    \/ Decode /\ UNCHANGED <<target, detVars, decVars, utilVars>>
SpecCodec == InitC /\ [][NextC]_vars

NextG ==
    \/ Encode /\ UNCHANGED <<target, detVars, decVars, utilVars>>
    \/ Garble /\ UNCHANGED <<target, detVars, decVars, utilVars>>
    \/ Decode /\ UNCHANGED <<target, detVars, decVars, utilVars>>
SpecGarble == InitC /\ [][NextG]_vars

InitS == InitSeptets /\ IdleDetector /\ IdleDecoder /\ IdleUtil
NextS == Decode /\ UNCHANGED <<target, detVars, decVars, utilVars>>
SpecDecode == InitS /\ [][NextS]_vars

InitB ==
    target \in Targets /\ NewDecoder /\ IdleCodec /\ IdleDetector /\ IdleUtil
NextB == FromBytes /\ UNCHANGED <<codecVars, detVars, utilVars>>
SpecBlock == InitB /\ [][NextB]_vars

InitA ==
    /\ target \in Targets
    /\ InitBitmap
    /\ IdleCodec /\ IdleDetector /\ DecoderOff /\ IdleCount /\ IdleInput
    /\ IdleRecognize /\ IdleScan
NextA ==
    \/ BitSet /\ UNCHANGED <<target, codecVars, detVars, decVars, bcf, inVars, rec, scan>>
    \/ BitClear /\ UNCHANGED <<target, codecVars, detVars, decVars, bcf, inVars, rec, scan>>
    \/ BitGet /\ UNCHANGED <<target, codecVars, detVars, decVars, bcf, inVars, rec, scan>>
    \/ BitSetAll /\ UNCHANGED <<target, codecVars, detVars, decVars, bcf, inVars, rec, scan>>
    \/ FirstFalse /\ UNCHANGED <<target, codecVars, detVars, decVars, bcf, inVars, rec, scan>>
SpecBitmap == InitA /\ [][NextA]_vars

InitK ==
    /\ InitCount
    /\ IdleCodec /\ IdleDetector /\ IdleDecoder /\ IdleBitmap /\ IdleInput
    /\ IdleRecognize /\ IdleScan
NextK ==
    /\ BlockCountFor
    /\ UNCHANGED <<target, codecVars, detVars, decVars, bitVars, inVars, rec, scan>>
SpecCount == InitK /\ [][NextK]_vars

InitI ==
    /\ InitInput
    /\ IdleCodec /\ IdleDetector /\ IdleDecoder /\ IdleBitmap /\ IdleCount
    /\ IdleRecognize /\ IdleScan
NextI ==
    \/ SkipUntil /\ UNCHANGED <<target, codecVars, detVars, decVars, bitVars, bcf, rec, scan>>
    \/ ReadUntil /\ UNCHANGED <<target, codecVars, detVars, decVars, bitVars, bcf, rec, scan>>
    \/ ReadExact /\ UNCHANGED <<target, codecVars, detVars, decVars, bitVars, bcf, rec, scan>>
SpecInput == InitI /\ [][NextI]_vars

InitR ==
    /\ InitRecognize
    /\ IdleCodec /\ IdleDetector /\ IdleDecoder /\ IdleBitmap /\ IdleCount
    /\ IdleInput /\ IdleScan
NextR ==
    /\ Recognize
    /\ UNCHANGED <<target, codecVars, detVars, decVars, bitVars, bcf, inVars, scan>>
SpecRecognize == InitR /\ [][NextR]_vars

InitN ==
    /\ InitScan
    /\ IdleCodec /\ IdleDetector /\ IdleDecoder /\ IdleBitmap /\ IdleCount
    /\ IdleInput /\ IdleRecognize
NextN ==
    \/ ScanChunk /\ UNCHANGED <<target, codecVars, detVars, decVars, bitVars, bcf, inVars, rec>>
    \/ ScanInterrupted /\ UNCHANGED <<target, codecVars, detVars, decVars, bitVars, bcf, inVars, rec>>
    \/ ScanError /\ UNCHANGED <<target, codecVars, detVars, decVars, bitVars, bcf, inVars, rec>>
SpecScan == InitN /\ [][NextN]_vars

InitD == InitDetector /\ IdleCodec /\ IdleDecoder /\ IdleUtil
NextD ==
    \/ Consume /\ UNCHANGED <<target, codecVars, decVars, utilVars>>
    \/ ConsumeStep /\ UNCHANGED <<target, codecVars, decVars, utilVars>>
    \/ Finish /\ UNCHANGED <<target, codecVars, decVars, utilVars>>
SpecDetector == InitD /\ [][NextD]_vars

(***************************************************************************)
(* What the properties below are stated with.                              *)
(***************************************************************************)
Range(f) == {f[i] : i \in DOMAIN f}

\* Big-endian integers read off a byte sequence at (1-based) position k.
BigEndian16(bs, k) == bs[k] * 256 + bs[k + 1]
BigEndian32(bs, k) == <<BigEndian16(bs, k), BigEndian16(bs, k + 2)>>

\* The header a block's bytes spell out.
HeaderOf(bs) ==
    [version     |-> BigEndian32(bs, 1),
     checksum    |-> BigEndian32(bs, 5),
     length      |-> BigEndian32(bs, 9),
     block_count |-> BigEndian16(bs, 13),
     block_index |-> BigEndian16(bs, 15)]

EventsOfType(evs, T) == SelectSeq(evs, LAMBDA e : e.event.type \in T)
EventList(evs)       == [i \in 1..Len(evs) |-> evs[i].event]
AllContinue(evs)     == \A i \in 1..Len(evs) : evs[i].ans = "Ok"

\* A step of decode_block.
IsDecodeBlock == op \in {"new", "idle"} /\ op' \in {"decode_block", "panic"}

\* The 256 bytes of block i in a decoder's image buffer.
Region(d, i) ==
    SubSeq(d.state.value.image, BLOCK_DATA_LEN * i + 1,
           BLOCK_DATA_LEN * i + BLOCK_DATA_LEN)

\* The image made of the payloads last accepted for each block, cut to the
\* length of the reference header.
WrittenImage ==
    [i \in 1..U32AsUsize(dec.state.value.header.length) |->
        Payload(written[(i - 1) \div BLOCK_DATA_LEN])[((i - 1) % BLOCK_DATA_LEN) + 1]]

(***************************************************************************)
(* C1 (SpecDetector)                                                       *)
(***************************************************************************)
\* The complete frames of the stream: F0, data bytes only, F7.
Frames ==
    {f \in (1..Len(stream)) \X (1..Len(stream)) :
        /\ f[1] < f[2]
        /\ stream[f[1]] = 240
        /\ stream[f[2]] = 247
        /\ \A k \in (f[1] + 1)..(f[2] - 1) : stream[k] <= 127}

\* C1: once consume has taken the whole stream with a handler that always
\* continues, every complete frame F0 d1..dn F7 (that fits the buffer) has
\* produced exactly one on_message, with pos the stream offset of its F0
\* and msg equal to d1..dn.
C1_MessagePerFrame ==
    (/\ dpc = "idle"
     /\ Len(calls) < MaxCalls
     /\ \A c \in 1..Len(calls) : calls[c].ans)
    => \A f \in Frames :
          f[2] - f[1] + 1 <= det.cap
          => Cardinality({c \in 1..Len(calls) :
                            /\ calls[c].kind = "message"
                            /\ calls[c].pos = f[1] - 1
                            /\ calls[c].msg = SubSeq(stream, f[1] + 1, f[2] - 1)})
             = 1

(***************************************************************************)
(* C3 (SpecCodec)                                                          *)
(***************************************************************************)
\* C3: decoding what encode_7bit made of an octet sequence gives the
\* sequence back: decode_7bit(encode_7bit(X)) = X for every X.
C3_RoundTrip == cpc = "decoded" => back8 = data8

\* A sequence whose length is not a multiple of 7, with an octet that has
\* its high bit set, has made the round trip.
C3_Witness ==
    /\ cpc = "decoded"
    /\ Len(data8) = 8
    /\ data8[8] = 255
    /\ Len(data7) = 10
    /\ back8 = data8

(***************************************************************************)
(* C2, C4, C5 (Spec): image()                                              *)
(***************************************************************************)
\* image() was called after every block 0..block_count-1 was accepted
\* exactly once, and the checksum of the reference header is the sum of
\* the payloads given.
C2_CompleteSet ==
    /\ op = "image"
    /\ dec.state.some
    /\ ~dup_ever
    /\ DOMAIN written = 0..(dec.state.value.header.block_count - 1)
    /\ dec.state.value.header.checksum =
          U32(SumRange(WrittenImage, 1, Len(WrittenImage)))

\* C2: after a complete set of blocks with one header, distinct indexes
\* 0..block_count-1 and the true checksum, decoded in any order, image()
\* invokes the handler for nothing and returns the payloads concatenated
\* in block_index order, cut to length bytes.
C2_ImageOfCompleteSet ==
    C2_CompleteSet => /\ events = <<>>
                      /\ ret = [tag |-> "Ok", image |-> WrittenImage]

\* Two blocks with different payloads gave an image of 300 bytes.
C2_Witness ==
    /\ C2_CompleteSet
    /\ dec.state.value.header.length = <<0, 300>>
    /\ written[0] = 165
    /\ written[1] = 60
    /\ events = <<>>
    /\ ret.tag = "Ok"
    /\ Len(ret.image) = 300

\* The block indexes whose seen bit is false.
Unseen ==
    {i \in 0..(dec.state.value.header.block_count - 1) :
        ~BoolArray_get(target, dec.state.value.blocks_done, i)}

\* C4: image() emits at most one MissingBlock: index 0, with an empty
\* slice returned (when the handler lets it return one), if no block was
\* ever accepted; otherwise the least index whose seen bit is false; and
\* none if and only if all block_count blocks have been written.
C4_MissingBlock ==
    op = "image" =>
       /\ Len(EventsOfType(events, {"MissingBlock"})) <= 1
       /\ ~dec.state.some =>
             /\ written = <<>>
             /\ EventList(events) = <<[type |-> "MissingBlock", index |-> 0]>>
             /\ AllContinue(events) => ret = [tag |-> "Ok", image |-> <<>>]
       /\ dec.state.some =>
             /\ Unseen = (0..(dec.state.value.header.block_count - 1))
                            \ DOMAIN written
             /\ Unseen # {} =>
                   /\ events # <<>>
                   /\ events[1].event =
                         [type |-> "MissingBlock", index |-> Min(Unseen)]
             /\ (EventsOfType(events, {"MissingBlock"}) = <<>>)
                   <=> (DOMAIN written =
                           0..(dec.state.value.header.block_count - 1))

\* Blocks 0 and 2 were accepted, block 1 was not: MissingBlock names 1.
C4_Witness ==
    /\ op = "image"
    /\ dec.state.some
    /\ {0, 2} \subseteq DOMAIN written
    /\ 1 \notin DOMAIN written
    /\ events # <<>>
    /\ events[1].event = [type |-> "MissingBlock", index |-> 1]

\* The sum of the first length bytes of the image buffer, as a u32 (no
\* image of at most 2 MiB sums to 2^32 or more).
ImageSum ==
    LET n == U32AsUsize(dec.state.value.header.length)
    IN  U32(SumRange(dec.state.value.image, 1, n))

\* C5: the checksum image() verifies is the sum of image[0..length]
\* modulo 2^32; unless the handler stopped image() at a MissingBlock, a
\* ChecksumMismatch{actual, expected} is emitted if and only if that sum
\* differs from the checksum of the first accepted block's header, actual
\* being the sum and expected the recorded checksum.
C5_ChecksumMismatch ==
    (/\ op = "image"
     /\ dec.state.some
     /\ AllContinue(EventsOfType(events, {"MissingBlock"})))
    => /\ (ImageSum # dec.state.value.header.checksum)
             <=> (EventsOfType(events, {"ChecksumMismatch"}) # <<>>)
       /\ \A i \in 1..Len(events) :
             events[i].event.type = "ChecksumMismatch"
             => /\ events[i].event.actual = ImageSum
                /\ events[i].event.expected = dec.state.value.header.checksum
                /\ i = Len(events)

\* All blocks of a 300-byte image are in; the sum of its 300 bytes is not
\* the recorded checksum, which is that of the same image with another
\* second block.
C5_Witness ==
    /\ op = "image"
    /\ dec.state.some
    /\ dec.state.value.header.length = <<0, 300>>
    /\ DOMAIN written = {0, 1}
    /\ written[0] = 165
    /\ written[1] = 165
    /\ dec.state.value.header.checksum = PatternSum(<<0, 300>>, 2)
    /\ EventList(events) =
          <<[type |-> "ChecksumMismatch", actual |-> PatternSum(<<0, 300>>, 1),
             expected |-> PatternSum(<<0, 300>>, 2)]>>

(***************************************************************************)
(* C6 .. C9 (Spec): decode_block                                           *)
(***************************************************************************)
DuplicateEvents(evs) == EventsOfType(evs, {"DuplicateBlock"})

\* The block of this step gets as far as the header checks and passes
\* them: it is not too short, the handler did not stop the call at its
\* InvalidBlockLength, and its image-level fields are those of the
\* reference header (or pass check_len, if it is the first).
SameImage(h, g) ==
    /\ h.version = g.version
    /\ h.checksum = g.checksum
    /\ h.length = g.length
    /\ h.block_count = g.block_count

GoodLength(h) ==
    /\ ~U32Gt(h.length, <<32, 0>>)
    /\ h.block_count = CeilBlocks(h.length)

PassesChecks ==
    /\ Len(block') >= 272
    /\ (Len(block') > 272 => events'[1].ans = "Ok")
    /\ IF dec.state.some THEN SameImage(HeaderOf(block'), dec.state.value.header)
       ELSE GoodLength(HeaderOf(block'))

\* Every block region written so far holds the payload last accepted for
\* its index.
C6_Regions ==
    dec.state.some =>
       \A i \in DOMAIN written : Region(dec, i) = Payload(written[i])

C6_Step ==
    (IsDecodeBlock /\ Len(block') >= 272) =>
       LET i == HeaderOf(block').block_index IN
       /\ (DuplicateEvents(events') # <<>>)
             <=> (PassesChecks /\ i \in DOMAIN written)
       /\ DuplicateEvents(events') # <<>> =>
             /\ EventList(DuplicateEvents(events')) =
                   <<[type |-> "DuplicateBlock", index |-> i]>>
             /\ Region(dec', i) = SubSeq(block', 17, 272)
             /\ \A j \in DOMAIN written \ {i} : Region(dec', j) = Region(dec, j)

\* C6: decode_block emits DuplicateBlock{index: i} if and only if a block
\* with block_index i was already written earlier in the same decoder; the
\* new payload then still overwrites image[256*i .. 256*i+256], so that
\* after any sequence of accepted blocks each block region holds the
\* payload of the last accepted block with that index.
C6_DuplicateBlock == []C6_Regions /\ [][C6_Step]_vars

\* Block 1 came again, with the payload that starts at 0x3C: the event was
\* emitted and the payload is in the region of block 1.
C6_Witness ==
    /\ op = "decode_block"
    /\ events # <<>>
    /\ events[Len(events)].event = [type |-> "DuplicateBlock", index |-> 1]
    /\ block[17] = 60
    /\ Region(dec, 1) = Payload(60)
    /\ dup_ever

\* C7: a block whose block_index >= block_count (and that is otherwise
\* acceptable) is rejected by decode_block with InvalidBlockIndex{actual =
\* block_index, max = block_count - 1, saturating at 0}; the decoder does
\* not fail fatally.
C7_InvalidBlockIndex ==
    (/\ op \in {"decode_block", "panic"}
     /\ fb.tag = "Ok"
     /\ fb.header.block_index >= fb.header.block_count
     /\ EventsOfType(events, {"InvalidImageLength", "InvalidBlockCount",
                              "InconsistentVersion", "InconsistentChecksum",
                              "InconsistentImageLength",
                              "InconsistentBlockCount"}) = <<>>
     /\ AllContinue(events))
    => /\ op # "panic"
       /\ ret = "Err"
       /\ EventList(EventsOfType(events, {"InvalidBlockIndex"})) =
             <<[type   |-> "InvalidBlockIndex",
                actual |-> fb.header.block_index,
                max    |-> IF fb.header.block_count = 0 THEN 0
                           ELSE fb.header.block_count - 1]>>

C8_Step ==
    (IsDecodeBlock /\ ~dec.state.some /\ Len(block') = 272) =>
       LET h == HeaderOf(block') IN
       /\ dec'.state.some <=> GoodLength(h)
       /\ dec'.state.some => dec'.state.value.header = h
       /\ ~GoodLength(h) =>
             /\ EventList(events') =
                   <<IF U32Gt(h.length, <<32, 0>>)
                     THEN [type |-> "InvalidImageLength", actual |-> h.length]
                     ELSE [type |-> "InvalidBlockCount",
                           actual |-> h.block_count,
                           expected |-> CeilBlocks(h.length)]>>
             /\ ret' = "Err"
             /\ dec' = dec

\* C8: while no reassembly state exists, a 272-byte block creates the state
\* if and only if length <= 2 MiB and block_count = ceil(length / 256);
\* otherwise exactly one event is emitted (InvalidImageLength{actual} when
\* length > 2 MiB, else InvalidBlockCount{actual, expected}), the block is
\* rejected and the state stays uncreated.
C8_FirstBlock == [][C8_Step]_vars

\* The first block accepted, with index 1 of a 300-byte image, has created
\* the state.
C8_Witness ==
    /\ op = "decode_block"
    /\ Len(block) = 272
    /\ events = <<>>
    /\ ret = "Ok"
    /\ ~dup_ever
    /\ DOMAIN written = {1}
    /\ dec.state.some
    /\ dec.state.value.header = HeaderOf(block)
    /\ dec.state.value.header.length = <<0, 300>>

\* The Inconsistent* events owed to a block with header h against the
\* reference header g, in the order version, checksum, length, block_count.
Owed(h, g) ==
    (IF h.version # g.version
     THEN <<[type |-> "InconsistentVersion", actual |-> h.version,
             expected |-> g.version, index |-> h.block_index]>> ELSE <<>>)
    \o (IF h.checksum # g.checksum
        THEN <<[type |-> "InconsistentChecksum", actual |-> h.checksum,
                expected |-> g.checksum, index |-> h.block_index]>> ELSE <<>>)
    \o (IF h.length # g.length
        THEN <<[type |-> "InconsistentImageLength", actual |-> h.length,
                expected |-> g.length, index |-> h.block_index]>> ELSE <<>>)
    \o (IF h.block_count # g.block_count
        THEN <<[type |-> "InconsistentBlockCount", actual |-> h.block_count,
                expected |-> g.block_count, index |-> h.block_index]>> ELSE <<>>)

C9_Step ==
    (/\ IsDecodeBlock
     /\ dec.state.some
     /\ Len(block') >= 272
     /\ AllContinue(events')
     /\ ~SameImage(HeaderOf(block'), dec.state.value.header))
    => /\ EventList(EventsOfType(events',
                       {"InconsistentVersion", "InconsistentChecksum",
                        "InconsistentImageLength", "InconsistentBlockCount"}))
             = Owed(HeaderOf(block'), dec.state.value.header)
       /\ EventsOfType(events', {"DuplicateBlock"}) = <<>>
       /\ ret' = "Err"
       /\ op' = "decode_block"
       /\ dec' = dec

\* C9: for a later block whose image-level header fields differ from the
\* reference header in the set D, and a handler that always continues,
\* decode_block emits exactly one Inconsistent* event per field in D, in
\* the order version, checksum, length, block_count, each with the block's
\* value as actual, the reference's as expected and the block's
\* block_index, and then rejects the block.
C9_Inconsistent == [][C9_Step]_vars

\* A block that differs in all four fields got its four events.
C9_Witness ==
    /\ op = "decode_block"
    /\ dec.state.some
    /\ Len(block) = 272
    /\ AllContinue(events)
    /\ EventList(events) = Owed(HeaderOf(block), dec.state.value.header)
    /\ Len(events) = 4
    /\ ret = "Err"

(***************************************************************************)
(* C10 (SpecBlock): Block::from_bytes                                      *)
(***************************************************************************)
\* C10: on a slice of exactly 272 bytes Block::from_bytes emits no event
\* and returns a block whose version, checksum and length are the
\* big-endian u32 of bytes 0..4, 4..8 and 8..12, whose block_count and
\* block_index are the big-endian u16 of bytes 12..14 and 14..16, and whose
\* data is bytes 16..272.
C10_FromBytes ==
    (op = "from_bytes" /\ Len(block) = 272) =>
       /\ events = <<>>
       /\ fb.tag = "Ok"
       /\ fb.header.version =
             <<block[1] * 256 + block[2], block[3] * 256 + block[4]>>
       /\ fb.header.checksum =
             <<block[5] * 256 + block[6], block[7] * 256 + block[8]>>
       /\ fb.header.length =
             <<block[9] * 256 + block[10], block[11] * 256 + block[12]>>
       /\ fb.header.block_count = block[13] * 256 + block[14]
       /\ fb.header.block_index = block[15] * 256 + block[16]
       /\ fb.data = [i \in 1..256 |-> block[16 + i]]

\* The block of the repository's test, read on a little-endian target.
C10_Witness ==
    /\ op = "from_bytes"
    /\ target.little_endian
    /\ block = TestBlock
    /\ fb.tag = "Ok"
    /\ fb.header = [version     |-> <<1, 515>>,         \* 0x00010203
                    checksum    |-> <<1029, 1543>>,     \* 0x04050607
                    length      |-> <<2057, 2571>>,     \* 0x08090A0B
                    block_count |-> 3085,               \* 0x0C0D
                    block_index |-> 3599]               \* 0x0E0F
    /\ fb.data[1] = 0
    /\ fb.data[256] = 255

(***************************************************************************)
(* C11 (SpecBlock): Block::from_bytes on a slice of the wrong length       *)
(***************************************************************************)
\* C11: on n # 272 bytes Block::from_bytes emits exactly one
\* InvalidBlockLength{actual: n}; if the handler answers stop the result is
\* Err(false), for n < 272 and for n > 272; if it answers continue the
\* result is Err(true) when n < 272 and, when n > 272, the block parsed from
\* the first 272 bytes.
C11_BadLength ==
    (op = "from_bytes" /\ Len(block) # 272) =>
       /\ EventList(events) =
             <<[type |-> "InvalidBlockLength", actual |-> Len(block)]>>
       /\ events[1].ans = "Err" => fb = [tag |-> "Err", err |-> FALSE]
       /\ (events[1].ans = "Ok" /\ Len(block) < 272)
             => fb = [tag |-> "Err", err |-> TRUE]
       /\ (events[1].ans = "Ok" /\ Len(block) > 272)
             => fb = [tag    |-> "Ok",
                      header |-> HeaderOf(block),
                      data   |-> SubSeq(block, 17, 272)]

\* A block of 273 bytes was cut to its first 272 when the handler let it.
C11_Witness ==
    /\ op = "from_bytes"
    /\ Len(block) = 273
    /\ events = <<[event |-> [type |-> "InvalidBlockLength", actual |-> 273],
                   ans   |-> "Ok"]>>
    /\ fb.tag = "Ok"
    /\ Len(fb.data) = 256
    /\ fb.header.length = <<0, 300>>

(***************************************************************************)
(* C12 .. C17 (SpecDetector)                                               *)
(***************************************************************************)
\* The position in consume's bytes of the first F0.
FirstF0 == Min({i \in 1..Len(bytes) : bytes[i] = 240})

C12_Step ==
    (/\ dpc = "loop"
     /\ det.state = "Initial"
     /\ 240 \in Range(bytes)
     /\ Len(calls) < MaxCalls)
    => LET offset == det.pos + FirstF0 - 1
           len    == offset - det.start
       IN  /\ det'.state = "SysExData"
           /\ det'.start = offset
           /\ IF len > 0
              THEN \E ans \in BOOLEAN :
                      calls' = Append(calls, [kind |-> "skip", pos |-> det.start,
                                              len |-> len, reason |-> "NotSysEx",
                                              ans |-> ans])
              ELSE calls' = calls

\* C12: while the detector is outside a message, every byte other than F0
\* extends the skip region; when an F0 arrives, on_skip(offset, len,
\* NotSysEx) is invoked if and only if len > 0, for exactly the bytes
\* skipped since the last event, and the detector is then inside a message
\* that starts at that F0.
C12_SkipUntilF0 == [][C12_Step]_vars

\* The last F0 of the stream, if what follows it is data only: the message
\* the input ends inside of.
OpenFrames ==
    {i \in 1..Len(stream) :
        /\ stream[i] = 240
        /\ \A k \in (i + 1)..Len(stream) : stream[k] <= 127}

\* C13: when the input ends, the detector reports the pending region
\* before terminating: outside a message with a non-empty skip region, one
\* NotSysEx(offset, len) for it (a stream without any F0 gives exactly one
\* NotSysEx{0, length}); inside a message, UnexpectedEof from the message's
\* F0 to the end of the input.
C13_PendingAtEnd ==
    (/\ dpc = "finished"
     /\ stream # <<>>
     /\ Len(calls) < MaxCalls
     /\ \A c \in 1..Len(calls) : calls[c].ans)
    => /\ 240 \notin Range(stream) =>
             \E ans \in BOOLEAN :
                calls = <<[kind |-> "skip", pos |-> 0, len |-> Len(stream),
                           reason |-> "NotSysEx", ans |-> ans]>>
       /\ \A i \in OpenFrames :
             /\ calls # <<>>
             /\ calls[Len(calls)].kind = "skip"
             /\ calls[Len(calls)].reason = "UnexpectedEof"
             /\ calls[Len(calls)].pos = i - 1
             /\ calls[Len(calls)].len = Len(stream) - i + 1

\* The complete frames of the stream that have System Real-Time bytes among
\* their data bytes.
RealTimeFrames ==
    {f \in (1..Len(stream)) \X (1..Len(stream)) :
        /\ f[1] < f[2]
        /\ stream[f[1]] = 240
        /\ stream[f[2]] = 247
        /\ \A k \in (f[1] + 1)..(f[2] - 1) : stream[k] <= 127 \/ stream[k] >= 248
        /\ \E k \in (f[1] + 1)..(f[2] - 1) : stream[k] >= 248}

\* The data bytes of a frame, its F8..FF bytes deleted.
DataOf(f) ==
    SelectSeq(SubSeq(stream, f[1] + 1, f[2] - 1), LAMBDA b : b <= 127)

\* In a step of accumulate_data that only sees F8..FF bytes nothing of the
\* message in progress changes.
C14_Transparent ==
    [][(/\ dpc = "loop"
        /\ det.state = "SysExData"
        /\ \A i \in 1..Len(bytes) : bytes[i] >= 248)
       => /\ det'.state = det.state
          /\ det'.start = det.start
          /\ det'.len = det.len
          /\ det'.buf = det.buf
          /\ calls' = calls]_vars

\* C14: System Real-Time bytes F8..FF are transparent: inside a message
\* they are not copied into the payload and change neither the state nor
\* the stored payload, so that the payload given to on_message is the
\* frame's data bytes with all F8..FF bytes deleted.
C14_RealTime ==
    (/\ dpc = "idle"
     /\ Len(calls) < MaxCalls
     /\ \A c \in 1..Len(calls) : calls[c].ans)
    => \A f \in RealTimeFrames :
          Len(DataOf(f)) + 2 <= det.cap
          => Cardinality({c \in 1..Len(calls) :
                            /\ calls[c].kind = "message"
                            /\ calls[c].msg = DataOf(f)}) = 1

\* C15: with capacity cap, a frame F0 .. F7 of more than cap data bytes is
\* reported as exactly one Overflow skip from its F0 through its F7, and
\* as no message; and for no input does the detector store more than cap
\* payload bytes or index its buffer out of bounds.
C15_Overflow ==
    /\ dpc # "panic"
    /\ Len(det.buf) <= det.cap
    /\ (/\ dpc = "idle"
        /\ Len(calls) < MaxCalls
        /\ \A c \in 1..Len(calls) : calls[c].ans)
       => \A f \in Frames :
             f[2] - f[1] - 1 > det.cap
             => /\ Cardinality({c \in 1..Len(calls) :
                                  /\ calls[c].kind = "skip"
                                  /\ calls[c].reason = "Overflow"
                                  /\ calls[c].pos = f[1] - 1
                                  /\ calls[c].len = f[2] - f[1] + 1}) = 1
                /\ \A c \in 1..Len(calls) :
                      calls[c].kind = "message" => calls[c].pos # f[1] - 1

\* decode_block and image: the handler's stop is the last invocation of the
\* call and the call returns Err(()).
C16_DecoderStops ==
    op \in {"decode_block", "image"} =>
       \A i \in 1..Len(events) :
          events[i].ans = "Err"
          => /\ i = Len(events)
             /\ op = "decode_block" => ret = "Err"
             /\ op = "image" => ret = [tag |-> "Err"]

\* consume: a step in which the handler answers stop ends the call, which
\* returns false.
C16_ConsumeStops ==
    [][(dpc = "loop" /\ Len(calls') > Len(calls) /\ ~calls'[Len(calls')].ans)
       => (dpc' = "idle" /\ dret' = "false")]_vars

\* C16: cancellation is cooperative and prompt: when the handler answers
\* stop to an event, consume invokes the handler no further during that
\* call and returns false, with the detector's position reflecting the
\* bytes consumed so far: it lies between the bytes consumed before the
\* stopped step and the bytes given to the detector.
C16_Cancellation ==
    (dpc = "idle" /\ dret = "false" /\ Len(calls) < MaxCalls)
    => /\ calls # <<>>
       /\ ~calls[Len(calls)].ans
       /\ Len(stream) - Len(bytes) <= det.pos
       /\ det.pos <= Len(stream)

\* The offset at which the span of the c-th event ends: a skip covers len
\* bytes; a message covers the bytes from its F0 through the next F7 (its
\* framing, its payload and the real-time bytes in between).
SpanEnd(c) ==
    IF calls[c].kind = "skip" THEN calls[c].pos + calls[c].len
    ELSE LET ends == {j \in (calls[c].pos + 2)..Len(stream) : stream[j] = 247}
         IN  IF ends = {} THEN Len(stream) + 1 ELSE Min(ends)

\* C17: with a handler that always continues, the events come in
\* non-decreasing offset order and their spans partition the input: they
\* are contiguous from offset 0, do not overlap, never reach past the
\* bytes given and, once the input has ended, add up to its length.
C17_Partition ==
    (/\ dpc \in {"idle", "finished"}
     /\ Len(calls) < MaxCalls
     /\ \A c \in 1..Len(calls) : calls[c].ans)
    => /\ calls # <<>> => calls[1].pos = 0
       /\ \A c \in 1..(Len(calls) - 1) :
             /\ calls[c].pos <= calls[c + 1].pos
             /\ SpanEnd(c) = calls[c + 1].pos
       /\ calls # <<>> => SpanEnd(Len(calls)) <= Len(stream)
       /\ (dpc = "finished" /\ stream # <<>>)
             => (calls # <<>> /\ SpanEnd(Len(calls)) = Len(stream))

(***************************************************************************)
(* C18 .. C20 (Spec)                                                       *)
(***************************************************************************)
\* C18: no input is fatal to the block decoder: for any sequence of
\* decode_block calls, on byte strings of any length and content, followed
\* by image(), and any answers of the handler, no operation panics; every
\* call ends with an Ok or Err result.
C18_NoPanic ==
    /\ op # "panic"
    /\ op = "decode_block" => ret \in {"Ok", "Err"}
    /\ op = "image" => ret.tag \in {"Ok", "Err"}


\* C19: the handler's signal alone decides the result of decode_block: it
\* returns Ok(()) when the handler answered continue to every event of the
\* call, also for a block rejected for its length, image length, block
\* count or a header that differs from the reference, and Err(()) only
\* when the handler answered stop to some event.
C19_HandlerDecides ==
    op = "decode_block" =>
       /\ AllContinue(events) => ret = "Ok"
       /\ ret = "Err" => \E i \in 1..Len(events) : events[i].ans = "Err"


\* The block indexes of the image in progress that no accepted block has
\* written.
NeverWritten ==
    (0..(dec.state.value.header.block_count - 1)) \ DOMAIN written

\* C20: when some block of the image in progress was never written and the
\* handler continues, image() emits MissingBlock with the least such index
\* first, a ChecksumMismatch (if any) only after it, and returns exactly
\* the first length bytes of the buffer: the payloads of the written
\* blocks at their places and zero bytes in every never-written region.
C20_Incomplete ==
    (/\ op = "image"
     /\ dec.state.some
     /\ NeverWritten # {}
     /\ AllContinue(events))
    => /\ events # <<>>
       /\ events[1].event =
             [type |-> "MissingBlock", index |-> Min(NeverWritten)]
       /\ \A i \in 2..Len(events) :
             /\ events[i].event.type = "ChecksumMismatch"
             /\ i = 2
       /\ ret.tag = "Ok"
       /\ ret.image = SubSeq(dec.state.value.image, 1,
                             U32AsUsize(dec.state.value.header.length))
       /\ Len(ret.image) = U32AsUsize(dec.state.value.header.length)
       /\ \A k \in 1..Len(ret.image) :
             LET i == (k - 1) \div BLOCK_DATA_LEN
             IN  ret.image[k] =
                    IF i \in NeverWritten THEN 0
                    ELSE Payload(written[i])[((k - 1) % BLOCK_DATA_LEN) + 1]

\* Blocks 0 and 2 of a 768-byte image were written, block 1 never: the
\* handler continued at MissingBlock{1} and at the ChecksumMismatch, and
\* the 768 bytes returned hold zeros at 256..512 between the two payloads.
C20_Witness ==
    /\ op = "image"
    /\ dec.state.some
    /\ dec.state.value.header.length = U32(768)
    /\ NeverWritten = {1}
    /\ AllContinue(events)
    /\ Len(events) = 2
    /\ events[1].event = [type |-> "MissingBlock", index |-> 1]
    /\ events[2].event.type = "ChecksumMismatch"
    /\ ret.tag = "Ok"
    /\ Len(ret.image) = 768
    /\ ret.image[256] = Payload(written[0])[256]
    /\ ret.image[257] = 0
    /\ ret.image[512] = 0
    /\ ret.image[513] = Payload(written[2])[1]


(***************************************************************************)
(* C21 .. C23 (SpecCodec, SpecDecode): lengths and range of the codec      *)
(***************************************************************************)
\* C21: encode_7bit appends exactly ceil(8N/7) septets for N octets, for
\* every N: none for no octet, 8 for 7, 12 for 10, 311 for 272.
C21_EncodedLength ==
    cpc \in {"encoded", "decoded"}
    => Len(data7) = (8 * Len(data8) + 6) \div 7

\* A raw block of 272 octets was encoded into BLOCK_7BIT_LEN septets.
C21_Witness ==
    /\ cpc = "encoded"
    /\ Len(data8) = BLOCK_HEAD_LEN + BLOCK_DATA_LEN
    /\ Len(data7) = BLOCK_7BIT_LEN


\* Bit b of the octet sequence s read as one string of bits, the least
\* significant bit of the first octet being bit 0; 0 past the end of s.
BitOf(s, b) ==
    IF b \div 8 >= Len(s) THEN 0
    ELSE (s[(b \div 8) + 1] \div Pow2(b % 8)) % 2

\* The 7 bits of s from bit 7*(k-1) on, as a number.
SeptetOf(s, k) ==
    LET b == 7 * (k - 1)
    IN  BitOf(s, b) + 2 * BitOf(s, b + 1) + 4 * BitOf(s, b + 2)
        + 8 * BitOf(s, b + 3) + 16 * BitOf(s, b + 4)
        + 32 * BitOf(s, b + 5) + 64 * BitOf(s, b + 6)

\* C22: every value encode_7bit emits lies in 00..7F, whatever the octets;
\* each septet holds the next 7 bits of the input, and the last one, when
\* fewer than 7 bits remain, holds them with zeros above.
C22_Septets ==
    cpc \in {"encoded", "decoded"}
    => \A k \in 1..Len(data7) :
          /\ data7[k] \in 0..127
          /\ data7[k] = SeptetOf(data8, k)

\* Eight octets FF were encoded: nine septets 7F and a last septet that
\* holds the single bit left, zero-padded.
C22_Witness ==
    /\ cpc = "encoded"
    /\ data8 = [i \in 1..8 |-> 255]
    /\ data7 = [k \in 1..10 |-> IF k = 10 THEN 1 ELSE 127]


\* C23: decode_7bit appends exactly floor(7M/8) octets for M septets: of
\* each group of 8 septets the first yields nothing and each of the other
\* 7 yields one octet; the 311 septets of an encoded block give 272 octets.
C23_DecodedLength ==
    cpc = "octets" => Len(back8) = (7 * Len(data7)) \div 8

\* 311 septets, some with bit 7 set, were decoded into the 272 octets of a
\* raw block.
C23_Witness ==
    /\ cpc = "octets"
    /\ Len(data7) = BLOCK_7BIT_LEN
    /\ \E k \in 1..Len(data7) : data7[k] > 127
    /\ Len(back8) = BLOCK_HEAD_LEN + BLOCK_DATA_LEN


(***************************************************************************)
(* C24, C25 (SpecBitmap)                                                   *)
(***************************************************************************)
\* C24: every bit of BoolArray::new(len) is false; after set(i), get(i)
\* is true and after clear(i) it is false; set(i) and clear(i) leave
\* get(j) for every j # i, and len(), unchanged, after any sequence of set
\* and clear calls.  That is: get(j) is, for every j, the value that the
\* calls so far stored at j last (truth: false at new, true at set(j),
\* false at clear(j)), and len() is the length given to new.
C24_SetClear ==
    BitmapInUse
    => /\ DOMAIN truth = 0..(arr.len - 1)
       /\ aop.kind = "new" => \A j \in DOMAIN truth : ~truth[j]
       /\ \A j \in DOMAIN truth : BoolArray_get(target, arr, j) = truth[j]
       /\ aop.kind = "get" => aret = [value |-> truth[aop.index]]

\* In an array of 123 bits that were all set, clear(67) left bit 67 false
\* and its neighbours in the same word, on both sides, true.
C24_Witness ==
    /\ aop = [kind |-> "clear", index |-> 67]
    /\ aret = [was |-> TRUE]
    /\ arr.len = 123
    /\ ~BoolArray_get(target, arr, 67)
    /\ BoolArray_get(target, arr, 64)
    /\ BoolArray_get(target, arr, 99)
    /\ truth[8]


\* The indexes below len that hold false.
FalseIndexes == {j \in DOMAIN truth : ~truth[j]}

\* C25: after any sequence of set and clear calls, on an array of any
\* length, first_false() returns Some(i) if and only if some index below
\* len holds false, and i is then the least such index; the padding bits
\* of the last word never make it return Some.
C25_FirstFalse ==
    aop.kind = "first_false"
    => aret = IF FalseIndexes = {} THEN None ELSE Some(Min(FalseIndexes))

\* The test first_false_some: 123 bits set, 67 and 99 cleared.
C25_Witness ==
    /\ aop.kind = "first_false"
    /\ arr.len = 123
    /\ FalseIndexes = {67, 99}
    /\ aret = Some(67)

\* An array whose length is not a multiple of the word size, every bit
\* set: the clear padding bits of its last word are not reported.
C25_WitnessPadding ==
    /\ aop.kind = "first_false"
    /\ arr.len = 33
    /\ FalseIndexes = {}
    /\ \E w \in 1..Len(arr.words) : arr.words[w] # WordBits(target)
    /\ aret = None


(***************************************************************************)
(* C26 (SpecCount)                                                         *)
(***************************************************************************)
\* C26: for every length from 0 to 2 MiB, block_count_for(length) is
\* ceil(length/256), the least count of 256-byte blocks that hold length
\* bytes, and it fits the 16-bit result: 0 for 0, 8192 for 2 MiB.
C26_BlockCount ==
    bcf.pc = "done"
    => LET n == U32AsUsize(bcf.len)
       IN  /\ bcf.count \in 0..65535
           /\ bcf.count * BLOCK_DATA_LEN >= n
           /\ bcf.count > 0 => (bcf.count - 1) * BLOCK_DATA_LEN < n

\* The greatest length: 2 MiB need 8192 blocks, more than 8 bits hold.
C26_Witness ==
    /\ bcf.pc = "done"
    /\ bcf.len = IMAGE_MAX_BYTES
    /\ bcf.count = 8192


(***************************************************************************)
(* C27 (SpecInput)                                                         *)
(***************************************************************************)
\* C27: after any sequence of skip_until, read_until and read_exact calls
\* on an Input, offset() is the number of bytes consumed from the
\* underlying stream since construction: the offset of the next unread
\* byte.
C27_Offset == iop.kind # "off" => inp.offset = isrc.pos


(***************************************************************************)
(* C28 (SpecRecognize)                                                     *)
(***************************************************************************)
\* The opcode bytes of the claim: 00..0E, 30 and 3F.
KnownOpcodes == 0..14 \cup {48, 63}

\* msg begins with 00 00 0E 1D, has at least 5 bytes, and its byte 4 is a
\* known opcode.
Recognizable(msg) ==
    /\ Len(msg) >= 5
    /\ <<msg[1], msg[2], msg[3], msg[4]>> = <<0, 0, 14, 29>>
    /\ msg[5] \in KnownOpcodes

\* C28: recognize_sysex(msg) returns Some((opcode, data)) if and only if
\* msg begins with the id bytes 00 00 0E 1D, has at least 5 bytes and its
\* byte 4 is in 00..0E or is 30 or 3F; opcode is then the variant of that
\* byte and data is msg[5..]; every other message gives None.
C28_Recognize ==
    rec.pc = "done"
    => IF Recognizable(rec.msg)
       THEN /\ rec.ret.some
            /\ \E v \in Opcode : /\ v.name = rec.ret.value.opcode
                                 /\ v.value = rec.msg[5]
            /\ rec.ret.value.data =
                  [i \in 1..(Len(rec.msg) - 5) |-> rec.msg[i + 5]]
       ELSE rec.ret = None

\* The test recognize_sysex_ok.
C28_Witness ==
    /\ rec.pc = "done"
    /\ rec.msg = <<0, 0, 14, 29, 48, 90, 165>>
    /\ rec.ret = Some([opcode |-> "UpdateOs", data |-> <<90, 165>>])


(***************************************************************************)
(* C29, C30 (SpecDetector)                                                 *)
(***************************************************************************)
\* The handler answered continue if this iteration invoked it.
ContinuedNow ==
    Len(calls') > Len(calls) => calls'[Len(calls')].ans

\* What C29 says of one iteration of consume's loop: it does not panic,
\* it consumes a byte or at least moves the detector to its other state
\* (the iteration after that consumes the byte that made it move), and
\* when it is the last one consume returns true with nothing left.
C29_Iteration ==
    /\ dpc' # "panic"
    /\ Len(bytes') < Len(bytes) \/ det'.state # det.state
    /\ dpc' = "idle" => (dret' = "true" /\ bytes' = <<>>)

\* C29: with a handler that answers continue, every iteration of consume's
\* loop makes progress, also when an F0 or another status byte arrives
\* inside a message, so that the call ends, and it ends returning true
\* with the whole chunk consumed.
C29_Step ==
    (dpc = "loop" /\ Len(calls) < MaxCalls /\ ContinuedNow) => C29_Iteration

C29_Terminates == [][C29_Step]_vars

\* The same for a detector with room for two bytes or more whose handler
\* has answered continue ever since it was made, which does hold.
C29_StepFromNew ==
    (/\ dpc = "loop"
     /\ Len(calls') < MaxCalls
     /\ det.cap >= 2
     /\ \A c \in 1..Len(calls') : calls'[c].ans)
    => C29_Iteration

C29_TerminatesFromNew == [][C29_StepFromNew]_vars


\* The index in bs of its first byte that is neither a data byte (00..7F)
\* nor a real-time byte (F8..FF), or 0 if it has none.
RECURSIVE FirstStatus(_, _)
FirstStatus(bs, i) ==
    IF i > Len(bs) THEN 0
    ELSE IF bs[i] <= 127 \/ bs[i] >= 248 THEN FirstStatus(bs, i + 1)
    ELSE i

\* The detector is inside a message and the next status byte of the chunk
\* is an F0.
InsideAtF0 ==
    /\ dpc = "loop"
    /\ det.state = "SysExData"
    /\ FirstStatus(bytes, 1) # 0
    /\ bytes[FirstStatus(bytes, 1)] = 240

\* The offset of that F0 in the stream.
NewF0 == Len(stream) - Len(bytes) + FirstStatus(bytes, 1) - 1

\* C30: when an F0 arrives while the detector is inside a message, one
\* UnexpectedByte skip is emitted that spans from the F0 of the interrupted
\* message up to the new F0; the detector stays inside, in a fresh message
\* that starts at the new F0, and goes on with the bytes after that F0, so
\* that the data bytes up to the next F7 become the payload of the new
\* message and the F0 is reported once only.
C30_Step ==
    (InsideAtF0 /\ Len(calls) < MaxCalls)
    => /\ dpc' # "panic"
       /\ Len(calls') = Len(calls) + 1
       /\ LET c == calls'[Len(calls')]
          IN  /\ c.kind = "skip"
              /\ c.reason = "UnexpectedByte"
              /\ c.pos = det.start
              /\ c.len = NewF0 - det.start
              /\ c.ans => bytes' = SubSeq(bytes, FirstStatus(bytes, 1) + 1,
                                         Len(bytes))
       /\ det'.state = "SysExData"
       /\ det'.start = NewF0

C30_InterruptedMessage == [][C30_Step]_vars


(***************************************************************************)
(* C31 (SpecDetector)                                                      *)
(***************************************************************************)
\* The detector is inside a message and the next status byte of the chunk
\* is one of 80..EF or F1..F6.
InsideAtStatus ==
    /\ dpc = "loop"
    /\ det.state = "SysExData"
    /\ FirstStatus(bytes, 1) # 0
    /\ bytes[FirstStatus(bytes, 1)] \in (128..239) \cup (241..246)

\* The offset of that status byte in the stream.
Offender == Len(stream) - Len(bytes) + FirstStatus(bytes, 1) - 1

\* C31: when a status byte in 80..EF or F1..F6 arrives while the detector is
\* inside a message, one UnexpectedByte skip is emitted that spans from the
\* start of the message through the offending byte; the accumulated payload
\* is dropped, the offending byte is consumed, and the detector goes outside
\* with its next region starting at the byte after the offending one.
C31_Step ==
    (InsideAtStatus /\ Len(calls) < MaxCalls)
    => /\ dpc' # "panic"
       /\ Len(calls') = Len(calls) + 1
       /\ LET c == calls'[Len(calls')]
          IN  /\ c.kind = "skip"
              /\ c.reason = "UnexpectedByte"
              /\ c.pos = det.start
              /\ c.len = Offender - det.start + 1
              /\ c.ans => bytes' = SubSeq(bytes, FirstStatus(bytes, 1) + 1,
                                         Len(bytes))
       /\ det'.state = "Initial"
       /\ det'.len = 0
       /\ det'.start = Offender + 1

C31_StatusByte == [][C31_Step]_vars


(***************************************************************************)
(* C32 (SpecDetector)                                                      *)
(***************************************************************************)
\* consume(bs) on detector d with a handler that always continues, run to
\* its return in at most fuel iterations of the while loop: the detector
\* afterwards, the handler invocations appended to log, and whether the call
\* returned.
RECURSIVE consume_whole(_, _, _, _)
consume_whole(d, bs, log, fuel) ==
    IF Len(bs) = 0
    THEN [det |-> d, calls |-> log, done |-> TRUE]
    ELSE IF fuel = 0
    THEN [det |-> d, calls |-> log, done |-> FALSE]
    ELSE LET r == IF d.state = "Initial"
                  THEN skip_non_sysex(d, bs, TRUE)
                  ELSE accumulate_data(d, bs, TRUE)
         IN  IF r.panic
             THEN [det |-> r.det, calls |-> log, done |-> FALSE]
             ELSE consume_whole(r.det, SubSeq(bs, r.len + 1, Len(bs)),
                                Record(log, r.call), fuel - 1)

\* The handler invocations of one consume call that is given the whole
\* stream, on a new detector of the same capacity.
OneCall ==
    consume_whole(SysExDetector_new(det.cap), stream, <<>>, 2 * MaxStream + 2)

\* Every handler invocation so far was answered with continue.
AlwaysContinued == \A c \in 1..Len(calls) : calls[c].ans

\* The handler invocations so far are those of the one call.
SameCalls == OneCall.done /\ calls = OneCall.calls

\* C32: the output of the detector does not depend on the chunking: when
\* the calls of consume so far have returned true, the handler invocations
\* are those of a single call that is given the whole input, and pos is the
\* number of bytes passed so far.
C32_Chunking ==
    (dpc = "idle" /\ dret = "true" /\ AlwaysContinued)
    => /\ det.pos = Len(stream)
       /\ SameCalls

\* What does hold: with a capacity of 2 or more, the handler invocations
\* (and the detector reached) are those of the single call.
C32_SameCallsFromNew ==
    (dpc = "idle" /\ dret = "true" /\ AlwaysContinued /\ det.cap >= 2)
    => SameCalls /\ det = OneCall.det


(***************************************************************************)
(* C33 .. C37 (Spec): the decoder state                                    *)
(***************************************************************************)
\* The block of this step is one decode_block rejects: it is too short, or
\* it is the first and fails check_len, or its image-level fields are not
\* those of the reference header.
Rejected ==
    \/ Len(block') < 272
    \/ /\ Len(block') >= 272
       /\ IF dec.state.some
          THEN ~SameImage(HeaderOf(block'), dec.state.value.header)
          ELSE ~GoodLength(HeaderOf(block'))

C33_Step == (IsDecodeBlock /\ Rejected) => (op' = "decode_block" /\ dec' = dec)

\* C33: a block that decode_block rejects (fewer than 272 bytes, a first
\* block that fails check_len, or a later block whose header does not match
\* the reference) leaves the decoder state as it was: the reference header,
\* every seen bit and every image byte, whatever the handler answers.
C33_RejectedBlock == [][C33_Step]_vars

\* A block that does not match the reference was rejected by a decoder that
\* has written a block, and another was rejected while there was no state.
C33_Witness ==
    /\ op = "decode_block"
    /\ Len(block) = 272
    /\ ret = "Err"
    /\ dec.state.some
    /\ DOMAIN written # {}
    /\ ~SameImage(HeaderOf(block), dec.state.value.header)

C33_WitnessFirst ==
    /\ op = "decode_block"
    /\ Len(block) = 272
    /\ ret = "Err"
    /\ ~dec.state.some
    /\ ~GoodLength(HeaderOf(block))


\* The payload of the block of this step was written: the state changed, or
\* the block was reported as a duplicate.
WroteNow ==
    /\ IsDecodeBlock
    /\ dec'.state.some
    /\ dec'.state # dec.state \/ DuplicateEvents(events') # <<>>

C34_Step ==
    /\ dec.state.some =>
          /\ dec'.state.some
          /\ SameImage(dec'.state.value.header, dec.state.value.header)
          /\ dec'.state.value.blocks_done.len = dec.state.value.blocks_done.len
          /\ Len(dec'.state.value.blocks_done.words)
                = Len(dec.state.value.blocks_done.words)
          /\ Len(dec'.state.value.image) = Len(dec.state.value.image)
    /\ WroteNow =>
          /\ Len(block') >= 272
          /\ SameImage(HeaderOf(block'), dec'.state.value.header)

\* C34: once the first accepted block has created the reassembly state, its
\* reference header (version, checksum, length, block_count), the length of
\* the seen array and the size of the image buffer never change across the
\* later calls of decode_block and image, and every block whose payload is
\* written has those four fields equal to the reference.
C34_ReferenceFixed == [][C34_Step]_vars

\* Two blocks were written, a block was then rejected and image() was
\* called: the decoder holds the state the first block created.
C34_Witness ==
    /\ op = "image"
    /\ dec.state.some
    /\ Cardinality(DOMAIN written) >= 2
    /\ dec.state.value.blocks_done.len = dec.state.value.header.block_count
    /\ Len(dec.state.value.image) = 256 * dec.state.value.header.block_count


\* Byte k (1-based) of the image buffer and the seen bit j before this
\* step; the buffer a first block creates is all zeros and unseen.
ByteBefore(k) == IF dec.state.some THEN dec.state.value.image[k] ELSE 0
SeenBefore(j) ==
    IF dec.state.some THEN BoolArray_get(target, dec.state.value.blocks_done, j)
    ELSE FALSE

C35_Step ==
    (WroteNow /\ op' = "decode_block") =>
       LET i  == HeaderOf(block').block_index
           st == dec'.state.value
       IN  /\ Region(dec', i) = SubSeq(block', 17, 272)
           /\ BoolArray_get(target, st.blocks_done, i)
           /\ \A k \in 1..Len(st.image) :
                 (k <= 256 * i \/ k > 256 * i + 256) => st.image[k] = ByteBefore(k)
           /\ \A j \in 0..(st.header.block_count - 1) :
                 j # i => (BoolArray_get(target, st.blocks_done, j) = SeenBefore(j))

\* C35: writing an accepted block with index i copies its 256 payload bytes
\* to image[256*i .. 256*i+256] and changes nothing else: every image byte
\* outside that range and every seen bit other than bit i keep the values
\* they had.
C35_WriteFrame == [][C35_Step]_vars

\* Only block 2 was written: its region holds the payload, the bytes before
\* it are zero and the other blocks are unseen.
C35_Witness ==
    /\ op = "decode_block"
    /\ ret = "Ok"
    /\ DOMAIN written = {2}
    /\ dec.state.some
    /\ dec.state.value.header.block_count >= 3
    /\ Region(dec, 2) = SubSeq(block, 17, 272)
    /\ \A k \in 1..512 : dec.state.value.image[k] = 0
    /\ Unseen = (0..(dec.state.value.header.block_count - 1)) \ {2}

\* A second block was written beside the first: the region of the first
\* still holds its payload.
C35_WitnessSecond ==
    /\ op = "decode_block"
    /\ ret = "Ok"
    /\ DOMAIN written = {0, 2}
    /\ HeaderOf(block).block_index = 0
    /\ Region(dec, 2) = Payload(written[2])
    /\ Unseen = (0..(dec.state.value.header.block_count - 1)) \ {0, 2}


\* The number of 1 bits in the words of a BoolArray.
RECURSIVE CountOnes(_, _)
CountOnes(a, w) ==
    IF w > Len(a.words) THEN 0
    ELSE Cardinality(a.words[w]) + CountOnes(a, w + 1)

\* C36: in every reachable decoder state with a reassembly state, seen has
\* exactly block_count bits, bit i is set if and only if a block with index
\* i has had its payload written into the image (also when the handler
\* answered stop at the DuplicateBlock event), and the number of set bits
\* does not exceed block_count.
C36_SeenBits ==
    dec.state.some =>
       LET st == dec.state.value
       IN  /\ st.blocks_done.len = st.header.block_count
           /\ \A i \in 0..(st.header.block_count - 1) :
                 BoolArray_get(target, st.blocks_done, i) <=> i \in DOMAIN written
           /\ DOMAIN written \subseteq 0..(st.header.block_count - 1)
           /\ CountOnes(st.blocks_done, 1) = Cardinality(DOMAIN written)
           /\ CountOnes(st.blocks_done, 1) <= st.header.block_count

\* Block 1 was written twice and the handler answered stop at the
\* DuplicateBlock event: bit 1 is set, and bit 0 is not.
C36_Witness ==
    /\ op = "decode_block"
    /\ ret = "Err"
    /\ events # <<>>
    /\ events[Len(events)].event = [type |-> "DuplicateBlock", index |-> 1]
    /\ events[Len(events)].ans = "Err"
    /\ dec.state.some
    /\ DOMAIN written = {1}
    /\ BoolArray_get(target, dec.state.value.blocks_done, 1)
    /\ ~BoolArray_get(target, dec.state.value.blocks_done, 0)
    /\ CountOnes(dec.state.value.blocks_done, 1) = 1


\* C37 (SpecCapacity): the capacity of the decoder bounds the image it
\* builds: after any sequence of decode_block calls on a decoder made with
\* capacity c, the reference length and the image returned do not exceed c
\* bytes (a first block that declares a greater length is rejected).
C37_Capacity ==
    /\ dec.state.some => ~U32Gt(dec.state.value.header.length, dec.capacity)
    /\ (op = "image" /\ ret.tag = "Ok")
          => Len(ret.image) <= U32AsUsize(dec.capacity)


(***************************************************************************)
(* C38 (SpecGarble)                                                        *)
(***************************************************************************)
\* C38: decode_7bit uses only the low 7 bits of each septet and discards
\* the trailing incomplete bits: decoding septets that agree with
\* encode_7bit(X) on the low 7 bits of every septet, except possibly in the
\* padding bits of the final septet, and have any values in bit 7, yields
\* exactly X.
C38_LowBitsOnly == cpc = "decoded" => back8 = data8

\* The twelve septets of the test test_decode_7bit, which are the encoding
\* of the ten octets of test_encode_7bit with bit 7 set in every other
\* septet and the four padding bits set, have been decoded.
C38_Witness ==
    /\ cpc = "decoded"
    /\ data8 = TestOctets
    /\ data7 = TestSeptets
    /\ data7 # encode_7bit(data8, <<>>)
    /\ back8 = TestOctets


(***************************************************************************)
(* C39 (SpecScan)                                                          *)
(***************************************************************************)
\* The same call on the same stream with no error.
Undisturbed ==
    scan_until_bits(ScanStart(scan.data, scan.cap,
                              [bits |-> scan.bits, mask |-> scan.mask]))

\* The 1-based positions in the stream of the bytes that match.
Delimiters ==
    {i \in 1..Len(scan.data) :
        BitAnd(scan.data[i], scan.mask) = BitAnd(scan.bits, scan.mask)}

\* The slices in fed, joined.
RECURSIVE Joined(_, _)
Joined(fed, i) == IF i > Len(fed) THEN <<>> ELSE fed[i] \o Joined(fed, i + 1)

\* C39: Interrupted errors of fill_buf are retried without effect on the
\* result: scan_until_bits returns the same (count, found byte), passes the
\* same bytes to its callback in the same order and consumes the same bytes
\* as on a stream without errors, with count including the delimiter when
\* one is found and the stream left just after it; an error that is not
\* Interrupted is returned to the caller.
C39_Retry ==
    scan.pc = "done" =>
       IF \E i \in 1..Len(scan.outcomes) : scan.outcomes[i] = "Other"
       THEN scan.ret = [tag |-> "Err", kind |-> "Other"]
       ELSE /\ scan.ret = Undisturbed.ret
            /\ scan.fed = Undisturbed.fed
            /\ scan.pos = Undisturbed.pos
            /\ scan.ret.tag = "Ok"
            /\ scan.ret.count = scan.pos
            /\ IF Delimiters = {}
               THEN /\ scan.ret.found = None
                    /\ scan.pos = Len(scan.data)
                    /\ Joined(scan.fed, 1) = scan.data
               ELSE /\ scan.ret.found = Some(scan.data[Min(Delimiters)])
                    /\ scan.pos = Min(Delimiters)
                    /\ Joined(scan.fed, 1)
                          = SubSeq(scan.data, 1, Min(Delimiters) - 1)

\* A call that was interrupted before its first chunk and again between
\* two chunks has found the F0 that ends a stream of four bytes.
C39_Witness ==
    /\ scan.pc = "done"
    /\ scan.outcomes = <<"Interrupted", "Ok", "Interrupted", "Ok">>
    /\ scan.data = <<18, 52, 18, 240>>
    /\ scan.ret = [tag |-> "Ok", count |-> 4, found |-> Some(240)]
    /\ scan.fed = <<<<18, 52>>, <<18>>>>
    /\ scan.pos = 4

\* A call that was interrupted and then met another error has returned it.
C39_WitnessError ==
    /\ scan.pc = "done"
    /\ scan.outcomes = <<"Ok", "Interrupted", "Other">>
    /\ scan.ret.tag = "Err"


(***************************************************************************)
(* C40 (SpecBitmap)                                                        *)
(***************************************************************************)
\* A step that is a call of set(i) or clear(i) returns the value the calls
\* before it stored at i last.
C40_Step ==
    aop'.kind \in {"set", "clear"} => aret' = [was |-> truth[aop'.index]]

\* C40: set(i) and clear(i) each return the value that bit i held just
\* before the call, after any sequence of earlier operations: the first
\* set(i) on a new array returns false, a second set(i) with no clear(i)
\* between returns true, and clear(i) returns true exactly when bit i was
\* set.
C40_Previous == [][C40_Step]_vars

\* A set of a bit that is set already has returned true, and the bit is
\* still set.
C40_Witness ==
    /\ aop = [kind |-> "set", index |-> 67]
    /\ aret = [was |-> TRUE]
    /\ truth[67]
    /\ ~truth[64]

\* A clear of a bit that was not set has returned false, while another bit
\* of the same word is set.
C40_WitnessClear ==
    /\ aop = [kind |-> "clear", index |-> 7]
    /\ aret = [was |-> FALSE]
    /\ truth[8]

\* A set of a bit that was not set has returned false, while another bit of
\* the same word is set.
C40_WitnessFirst ==
    /\ aop = [kind |-> "set", index |-> 0]
    /\ aret = [was |-> FALSE]
    /\ arr.len = 11
    /\ truth[7]

====
